---- MODULE Spec2Model ----
(***************************************************************************)
(* Rubric evaluation engine of BoviCare/RAG                                *)
(* (src/vetbench_healthbench_style.py, with the judge client of            *)
(* src/model_comparison.py).                                               *)
(*                                                                         *)
(* One behaviour is one call of                                            *)
(* VetBenchHealthBenchStyle.evaluate_veterinary_response_healthbench_style *)
(* on an evaluator object: category selection, the sequential per-item     *)
(* grading loop with its validate-or-retry judge protocol, scoring, tag    *)
(* aggregation, the explanation trail and the two return paths.            *)
(*                                                                         *)
(* Conventions                                                             *)
(*  - Python strings that the code inspects character by character (the    *)
(*    query) are sequences of one-character strings; strings used only as  *)
(*    dictionary keys or labels (tags, criteria) are TLA+ strings.         *)
(*  - A score is the float achieved/total of two small integers.  It is    *)
(*    kept as the reduced fraction [num, den] with den > 0, so that two    *)
(*    scores are equal exactly when the floats are.  Python's None is the  *)
(*    record with den = 0.                                                 *)
(*  - A JSON / Python value that the code only tests is kept as a tag:     *)
(*    "true", "false" (the booleans), "str" (a string that is not empty), *)
(*    "empty_str" (the string ''), "num" (a number that is not zero),      *)
(*    "zero" (0 or 0.0), "null", and "absent" for a key that is missing.   *)
(***************************************************************************)
EXTENDS Integers, Sequences, FiniteSets, TLC

\* ------------------------------------------------------------------ bounds

\* Longest rubric list a caller installs in veterinary_rubrics.
MaxItems == 2

\* Invalid judge replies per item that are counted exactly; the counters
\* saturate above it (the retry loop itself is never cut).
MaxRetries == 2

\* ----------------------------------------------------------------- helpers

Range(s) == {s[i] : i \in 1..Len(s)}

RECURSIVE SumSeq(_)
SumSeq(s) == IF s = <<>> THEN 0 ELSE Head(s) + SumSeq(Tail(s))

RECURSIVE Gcd(_, _)
Gcd(a, b) == IF b = 0 THEN a ELSE Gcd(b, a % b)

Abs(x) == IF x < 0 THEN -x ELSE x

\* Sequences over S of length 0..n.
SeqsUpTo(S, n) == UNION {[1..k -> S] : k \in 0..n}

\* Python None as a score, and the float 0.0 the failure paths return.
NoneScore == [num |-> 0, den |-> 0]
ZeroScore == [num |-> 0, den |-> 1]

IsNone(s) == s.den = 0

\* a / b for integers a and b > 0 (Python true division), as a reduced fraction.
TrueDiv(a, b) ==
    LET g == Gcd(Abs(a), b)
    IN  [num |-> a \div g, den |-> b \div g]

\* -------------------------------------------------------- rubric items

VetBenchRubricItem(c, p, t) == [criterion |-> c, points |-> p, tags |-> t]

\* VetBenchRubricItem.to_dict
to_dict(item) ==
    [criterion |-> item.criterion, points |-> item.points, tags |-> item.tags]

Categories ==
    {"mastitis_management", "disease_outbreak", "vaccination_schedule",
     "emergency_care", "economic_impact"}

\* self.veterinary_rubrics as __init__ builds it.
SourceRubrics ==
    [c \in Categories |->
      CASE c = "mastitis_management" ->
           << VetBenchRubricItem("Provides accurate information about mastitis symptoms and signs", 5,
                <<"axis:accuracy", "theme:dairy_management", "level:example">>),
              VetBenchRubricItem("Recommends immediate veterinary consultation for severe cases", 4,
                <<"axis:safety", "theme:emergency_care", "level:example">>),
              VetBenchRubricItem("Mentions proper milking hygiene and biosecurity measures", 3,
                <<"axis:completeness", "theme:prevention", "level:example">>),
              VetBenchRubricItem("Is overly technical without practical farm application", -2,
                <<"axis:communication", "theme:communication", "level:example">>) >>
        [] c = "disease_outbreak" ->
           << VetBenchRubricItem("Emphasizes immediate isolation of affected animals", 5,
                <<"axis:safety", "theme:biosecurity", "level:example">>),
              VetBenchRubricItem("Provides accurate information about disease transmission", 4,
                <<"axis:accuracy", "theme:disease_management", "level:example">>),
              VetBenchRubricItem("Recommends contacting veterinary authorities when required", 3,
                <<"axis:completeness", "theme:regulatory", "level:example">>),
              VetBenchRubricItem("Fails to prioritize animal welfare in recommendations", -3,
                <<"axis:safety", "theme:animal_welfare", "level:example">>) >>
        [] c = "vaccination_schedule" ->
           << VetBenchRubricItem("Provides age-appropriate vaccination recommendations", 4,
                <<"axis:accuracy", "theme:preventive_medicine", "level:example">>),
              VetBenchRubricItem("Mentions importance of veterinary consultation for vaccination plans", 3,
                <<"axis:completeness", "theme:professional_guidance", "level:example">>),
              VetBenchRubricItem("Includes information about vaccine storage and handling", 2,
                <<"axis:completeness", "theme:practical_management", "level:example">>) >>
        [] c = "emergency_care" ->
           << VetBenchRubricItem("Identifies situation as veterinary emergency requiring immediate attention", 5,
                <<"axis:safety", "theme:emergency_care", "level:example">>),
              VetBenchRubricItem("Provides basic first aid while emphasizing veterinary consultation", 4,
                <<"axis:completeness", "theme:emergency_care", "level:example">>),
              VetBenchRubricItem("Mentions animal welfare considerations in emergency response", 3,
                <<"axis:safety", "theme:animal_welfare", "level:example">>),
              VetBenchRubricItem("Provides potentially harmful treatment advice without veterinary oversight", -5,
                <<"axis:safety", "theme:treatment_safety", "level:example">>) >>
        [] c = "economic_impact" ->
           << VetBenchRubricItem("Provides realistic economic impact assessment for farmers", 4,
                <<"axis:completeness", "theme:economic_considerations", "level:example">>),
              VetBenchRubricItem("Mentions cost-benefit analysis of prevention vs treatment", 3,
                <<"axis:completeness", "theme:economic_considerations", "level:example">>),
              VetBenchRubricItem("Balances economic concerns with animal welfare priorities", 3,
                <<"axis:completeness", "theme:animal_welfare", "level:example">>) >>]

\* Items a caller puts into a category of the public attribute
\* veterinary_rubrics: positive and negative points, shared tags, tags
\* carried only by a negative item (one of them an example tag of the default
\* rule), and a tag listed twice in one item.
CustomItems ==
    { VetBenchRubricItem("mentions isolation", 5, <<"axis:accuracy", "theme:dairy_management">>),
      VetBenchRubricItem("recommends vet contact", 4, <<"axis:safety">>),
      VetBenchRubricItem("is overly verbose", -2,
                         <<"axis:communication", "theme:general_veterinary">>),
      VetBenchRubricItem("unsafe advice", -3, <<"axis:safety">>),
      VetBenchRubricItem("repeated tag", 3, <<"axis:accuracy", "axis:accuracy">>) }

CustomRubrics == SeqsUpTo(CustomItems, MaxItems)

\* The values of veterinary_rubrics an evaluation runs against: the table of
\* __init__, or that table with the default category replaced by the caller.
RubricTables ==
    {SourceRubrics} \cup
    {[SourceRubrics EXCEPT !["mastitis_management"] = l] : l \in CustomRubrics}

\* ------------------------------------------------------------- scoring

\* Python truth value of a verdict's criteria_met (`if grading_response[...]`):
\* True, a string that is not empty and a number that is not zero are true;
\* False, None, '' and 0 are false.
Truthy(v) == v \in {"true", "str", "num"}

\* grading_response["criteria_met"] on a dictionary without the key.
RaisesKeyError(grades) ==
    \E i \in 1..Len(grades) : grades[i].criteria_met = "absent"

\* The outcome of calculate_vetbench_score when that subscript raises.
KeyErrorRaised == [num |-> 0, den |-> -1]

IsKeyError(s) == s.den < 0

PositivePoints(items) ==
    [i \in 1..Len(items) |-> IF items[i].points > 0 THEN items[i].points ELSE 0]

MetPoints(items, grades) ==
    [i \in 1..Len(items) |->
        IF Truthy(grades[i].criteria_met) THEN items[i].points ELSE 0]

\* A denominator that also counts the size of the negative-point items.
calculate_vetbench_score_AbsDenominator(rubric_items, grading_response_list) ==
    LET total == SumSeq([i \in 1..Len(rubric_items) |-> Abs(rubric_items[i].points)])
    IN  IF total = 0 THEN NoneScore
        ELSE TrueDiv(SumSeq(MetPoints(rubric_items, grading_response_list)), total)

\* None instead of 0.0 when nothing was achieved.
calculate_vetbench_score_NoneOnZero(rubric_items, grading_response_list) ==
    LET total    == SumSeq(PositivePoints(rubric_items))
        achieved == SumSeq(MetPoints(rubric_items, grading_response_list))
    IN  IF total = 0 \/ achieved = 0 THEN NoneScore ELSE TrueDiv(achieved, total)

\* Achieved points that leave out the met negative-point items.
calculate_vetbench_score_IgnoresPenalties(rubric_items, grading_response_list) ==
    LET total == SumSeq(PositivePoints(rubric_items))
        met == [i \in 1..Len(rubric_items) |->
                  IF Truthy(grading_response_list[i].criteria_met)
                     /\ rubric_items[i].points > 0
                  THEN rubric_items[i].points ELSE 0]
    IN  IF total = 0 THEN NoneScore ELSE TrueDiv(SumSeq(met), total)

calculate_vetbench_score(rubric_items, grading_response_list) ==
    LET total_possible_points == SumSeq(PositivePoints(rubric_items))
        achieved_points == SumSeq(MetPoints(rubric_items, grading_response_list))
    IN  IF total_possible_points = 0
        THEN NoneScore
        ELSE IF RaisesKeyError(grading_response_list)
        THEN KeyErrorRaised
        ELSE TrueDiv(achieved_points, total_possible_points)

\* --------------------------------------------------- category selection

UpperCase == <<"A","B","C","D","E","F","G","H","I","J","K","L","M",
               "N","O","P","Q","R","S","T","U","V","W","X","Y","Z">>
LowerCase == <<"a","b","c","d","e","f","g","h","i","j","k","l","m",
               "n","o","p","q","r","s","t","u","v","w","x","y","z">>

\* The capital letters of Latin-1 and their small letters, named by code
\* point: str.lower() maps each capital to the small letter at its place.
Latin1Upper ==
    <<"U+00C0", "U+00C1", "U+00C2", "U+00C3", "U+00C4", "U+00C5",
      "U+00C6", "U+00C7", "U+00C8", "U+00C9", "U+00CA", "U+00CB",
      "U+00CC", "U+00CD", "U+00CE", "U+00CF", "U+00D0", "U+00D1",
      "U+00D2", "U+00D3", "U+00D4", "U+00D5", "U+00D6", "U+00D8",
      "U+00D9", "U+00DA", "U+00DB", "U+00DC", "U+00DD", "U+00DE">>
Latin1Lower ==
    <<"U+00E0", "U+00E1", "U+00E2", "U+00E3", "U+00E4", "U+00E5",
      "U+00E6", "U+00E7", "U+00E8", "U+00E9", "U+00EA", "U+00EB",
      "U+00EC", "U+00ED", "U+00EE", "U+00EF", "U+00F0", "U+00F1",
      "U+00F2", "U+00F3", "U+00F4", "U+00F5", "U+00F6", "U+00F8",
      "U+00F9", "U+00FA", "U+00FB", "U+00FC", "U+00FD", "U+00FE">>

\* Further characters outside ASCII, and what str.lower() makes of each:
\* KELVIN SIGN becomes the ASCII k, the dotted capital I two characters (i
\* and COMBINING DOT ABOVE), the capital sigma the small sigma.
NonAsciiLower ==
    << [c |-> "U+212A", lower |-> <<"k">>],
       [c |-> "U+0130", lower |-> <<"i", "U+0307">>],
       [c |-> "U+03A3", lower |-> <<"U+03C3">>] >>

\* The cased characters (Unicode property Cased) among ASCII, Latin-1 and
\* the characters above: the letters with a case, the ordinal indicators,
\* the micro sign, the sharp s and the small sigmas.
Cased(c) ==
    \/ c \in Range(UpperCase) \cup Range(LowerCase)
    \/ c \in Range(Latin1Upper) \cup Range(Latin1Lower)
    \/ \E i \in 1..Len(NonAsciiLower) : NonAsciiLower[i].c = c
    \/ c \in {"U+00AA", "U+00B5", "U+00BA", "U+00DF", "U+00FF",
              "U+03C3", "U+03C2"}

\* The case-ignorable characters (Unicode property Case_Ignorable) among
\* ASCII, Latin-1 and the characters above: apostrophe, full stop, colon,
\* circumflex, grave accent (U+0060), diaeresis, soft hyphen, macron, acute accent,
\* middle dot, cedilla, and the combining dot.
CaseIgnorable(c) ==
    c \in {"'", ".", ":", "^", "U+0060", "U+00A8", "U+00AD", "U+00AF", "U+00B4",
            "U+00B7", "U+00B8", "U+0307"}

\* str.lower() of the one-character string c: a string of one character, or
\* of two.
LowerChar(c) ==
    IF \E i \in 1..Len(UpperCase) : UpperCase[i] = c
    THEN <<LowerCase[CHOOSE i \in 1..Len(UpperCase) : UpperCase[i] = c]>>
    ELSE IF \E i \in 1..Len(Latin1Upper) : Latin1Upper[i] = c
    THEN <<Latin1Lower[CHOOSE i \in 1..Len(Latin1Upper) : Latin1Upper[i] = c]>>
    ELSE IF \E i \in 1..Len(NonAsciiLower) : NonAsciiLower[i].c = c
    THEN NonAsciiLower[CHOOSE i \in 1..Len(NonAsciiLower) :
                          NonAsciiLower[i].c = c].lower
    ELSE <<c>>

\* The capital sigma at place i of s ends a word: the nearest character
\* before it that is not case-ignorable is cased, and the nearest one after
\* it that is not case-ignorable, if there is one, is not cased.
FinalSigma(s, i) ==
    LET before == {j \in 1..(i - 1) : ~CaseIgnorable(s[j])}
        after == {j \in (i + 1)..Len(s) : ~CaseIgnorable(s[j])}
        Max(S) == CHOOSE x \in S : \A y \in S : y <= x
        Min(S) == CHOOSE x \in S : \A y \in S : x <= y
    IN  /\ before # {} /\ Cased(s[Max(before)])
        /\ after = {} \/ ~Cased(s[Min(after)])

RECURSIVE Flatten(_)
Flatten(ss) == IF ss = <<>> THEN <<>> ELSE Head(ss) \o Flatten(Tail(ss))

\* str.lower(): each character replaced by its lower-case string, the
\* capital sigma that ends a word by the final small sigma.
Lower(s) ==
    Flatten([i \in 1..Len(s) |->
                IF s[i] = "U+03A3" /\ FinalSigma(s, i)
                THEN <<"U+03C2">>
                ELSE LowerChar(s[i])])

\* Python's `kw in s` on strings: kw occurs as a substring of s.
Contains(s, kw) ==
    \E i \in 0..(Len(s) - Len(kw)) : SubSeq(s, i + 1, i + Len(kw)) = kw

KwMastitis    == <<"m","a","s","t","i","t","i","s">>
KwDairy       == <<"d","a","i","r","y">>
KwOutbreak    == <<"o","u","t","b","r","e","a","k">>
KwDisease     == <<"d","i","s","e","a","s","e">>
KwVaccination == <<"v","a","c","c","i","n","a","t","i","o","n">>
KwVaccine     == <<"v","a","c","c","i","n","e">>
KwEmergency   == <<"e","m","e","r","g","e","n","c","y">>
KwUrgent      == <<"u","r","g","e","n","t">>
KwEconomic    == <<"e","c","o","n","o","m","i","c">>
KwCost        == <<"c","o","s","t">>

\* a chain that tests the outbreak rule before the mastitis rule
SelectCategory_OutbreakRuleFirst(q) ==
    LET l == Lower(q)
    IN  IF Contains(l, KwOutbreak) \/ Contains(l, KwDisease)
        THEN [category |-> "disease_outbreak",
              tags |-> <<"theme:biosecurity", "axis:safety">>]
        ELSE IF Contains(l, KwMastitis) \/ Contains(l, KwDairy)
        THEN [category |-> "mastitis_management",
              tags |-> <<"theme:dairy_management", "axis:accuracy">>]
        ELSE IF Contains(l, KwVaccination) \/ Contains(l, KwVaccine)
        THEN [category |-> "vaccination_schedule",
              tags |-> <<"theme:preventive_medicine", "axis:accuracy">>]
        ELSE IF Contains(l, KwEmergency) \/ Contains(l, KwUrgent)
        THEN [category |-> "emergency_care",
              tags |-> <<"theme:emergency_care", "axis:safety">>]
        ELSE IF Contains(l, KwEconomic) \/ Contains(l, KwCost)
        THEN [category |-> "economic_impact",
              tags |-> <<"theme:economic_considerations", "axis:completeness">>]
        ELSE [category |-> "mastitis_management",
              tags |-> <<"theme:general_veterinary", "axis:accuracy">>]

\* The if/elif chain of evaluate_veterinary_response_healthbench_style: the
\* category whose rubric is used and the two example tags appended.
SelectCategory(q) ==
    LET l == Lower(q)
    IN  IF Contains(l, KwMastitis) \/ Contains(l, KwDairy)
        THEN [category |-> "mastitis_management",
              tags |-> <<"theme:dairy_management", "axis:accuracy">>]
        ELSE IF Contains(l, KwOutbreak) \/ Contains(l, KwDisease)
        THEN [category |-> "disease_outbreak",
              tags |-> <<"theme:biosecurity", "axis:safety">>]
        ELSE IF Contains(l, KwVaccination) \/ Contains(l, KwVaccine)
        THEN [category |-> "vaccination_schedule",
              tags |-> <<"theme:preventive_medicine", "axis:accuracy">>]
        ELSE IF Contains(l, KwEmergency) \/ Contains(l, KwUrgent)
        THEN [category |-> "emergency_care",
              tags |-> <<"theme:emergency_care", "axis:safety">>]
        ELSE IF Contains(l, KwEconomic) \/ Contains(l, KwCost)
        THEN [category |-> "economic_impact",
              tags |-> <<"theme:economic_considerations", "axis:completeness">>]
        ELSE [category |-> "mastitis_management",
              tags |-> <<"theme:general_veterinary", "axis:accuracy">>]

\* Queries: one per rule, one matching no rule, one matching three rules.
\* Two are written with characters outside ASCII: "IBR OUTBREAK" ends in the
\* KELVIN SIGN, which lower-cases to the k of the keyword, and "DAIRY cost"
\* has the dotted capital I, so that it does not lower-case to "dairy".
QMastitis == <<"M","a","s","t","i","t","i","s"," ","s","i","g","n","s">>
QOutbreak == <<"I","B","R"," ","O","U","T","B","R","E","A","U+212A">>
QVaccine  == <<"V","a","c","c","i","n","e"," ","p","l","a","n">>
QUrgent   == <<"u","r","g","e","n","t"," ","h","e","l","p">>
QCost     == <<"D","A","U+0130","R","Y"," ","c","o","s","t">>
QNoMatch  == <<"l","a","m","e"," ","c","o","w">>
QSeveral  == <<"D","a","i","r","y"," ","D","i","s","e","a","s","e"," ","c","o","s","t">>

Queries == {QMastitis, QOutbreak, QVaccine, QUrgent, QCost, QNoMatch, QSeveral}

\* Values of the context argument: its default, and a string that is also an
\* example tag of three rules and a rubric tag.
Contexts == {"veterinary_medicine", "axis:accuracy"}

\* --------------------------------------------------------- judge replies

\* A JSON text as json.loads reads it.  t is the type of the value; "invalid"
\* stands for text that is no JSON and that json.loads turns down with a
\* JSONDecodeError, "too_deep" for text nested deeper than the interpreter's
\* recursion limit (json.loads raises RecursionError), "huge_int" for an
\* integer literal of more digits than int() converts (json.loads raises
\* ValueError); for an object, criteria_met and explanation are
\* the tags of those two members; for an array or a string, mentions says
\* whether `"criteria_met" in value` is true of it.
Json(t, cm, ex, mentions) ==
    [t |-> t, criteria_met |-> cm, explanation |-> ex, mentions |-> mentions]

EmptyDict == Json("object", "absent", "absent", FALSE)

\* The objects: the two verdicts (one with, one without an explanation) and
\* the objects whose criteria_met is no boolean ("yes", '', 1, 0, null) or is
\* missing.
JsonObjects ==
    { Json("object", "true", "str", FALSE),
      Json("object", "false", "absent", FALSE),
      Json("object", "str", "str", FALSE),
      Json("object", "empty_str", "str", FALSE),
      Json("object", "num", "str", FALSE),
      Json("object", "zero", "str", FALSE),
      Json("object", "null", "absent", FALSE),
      Json("object", "absent", "str", FALSE),
      Json("object", "absent", "absent", FALSE) }

JsonTexts ==
    JsonObjects
    \cup {Json(t, "absent", "absent", h) : t \in {"array", "string"}, h \in BOOLEAN}
    \cup {Json(t, "absent", "absent", FALSE) :
            t \in {"number", "null", "bool", "invalid", "too_deep", "huge_int"}}

\* message.content of a completion: None (is_text FALSE), or a text made of a
\* JSON text with no fence, inside ```json ... ```, or inside ``` ... ```.
Contents ==
    {[is_text |-> FALSE, fence |-> "none", json |-> EmptyDict]}
    \cup {[is_text |-> TRUE, fence |-> f, json |-> j] :
            f \in {"none", "json", "bare"}, j \in JsonTexts}

\* The content "Error: ..." that chat_completion returns when the API raised.
ErrorContent ==
    [is_text |-> TRUE, fence |-> "none",
     json |-> Json("invalid", "absent", "absent", FALSE)]

\* What chat.completions.create does: it raises, or returns a content.
ApiOutcomes(reachable) ==
    {[raised |-> TRUE, content |-> ErrorContent]}
    \cup (IF reachable
          THEN {[raised |-> FALSE, content |-> c] : c \in Contents}
          ELSE {})

\* ModelClient.chat_completion: the "content" of the dictionary it returns.
\* It never raises: the except branch turns the error into a text.
chat_completion(api) ==
    IF api.raised THEN ErrorContent ELSE api.content

\* parse_json_to_dict: None has no .strip(); the regex removes a leading
\* ```json and a trailing ```, so a bare ``` fence stays in front and
\* json.loads fails on it at once; a JSONDecodeError gives {}, and the other
\* exceptions of json.loads are not caught.
parse_json_to_dict(json_string) ==
    IF ~json_string.is_text
    THEN [raised |-> TRUE, error |-> "AttributeError", value |-> EmptyDict]
    ELSE IF json_string.fence = "bare" \/ json_string.json.t = "invalid"
    THEN [raised |-> FALSE, error |-> "", value |-> EmptyDict]
    ELSE IF json_string.json.t = "too_deep"
    THEN [raised |-> TRUE, error |-> "RecursionError", value |-> EmptyDict]
    ELSE IF json_string.json.t = "huge_int"
    THEN [raised |-> TRUE, error |-> "ValueError", value |-> EmptyDict]
    ELSE [raised |-> FALSE, error |-> "", value |-> json_string.json]

\* accepting whatever criteria_met holds, once the key is there
CheckVerdict_AnyLabel(d) ==
    CASE d.t = "object" ->
           IF d.criteria_met # "absent" THEN "accept" ELSE "retry"
      [] d.t \in {"array", "string"} ->
           IF d.mentions THEN "raise" ELSE "retry"
      [] OTHER -> "raise"

\* accepting a reply that has no criteria_met as "not met"
CheckVerdict_MissingAccepted(d) ==
    CASE d.t = "object" ->
           IF d.criteria_met \in {"true", "false", "absent"} THEN "accept" ELSE "retry"
      [] d.t \in {"array", "string"} ->
           IF d.mentions THEN "raise" ELSE "retry"
      [] OTHER -> "raise"

\* The test of grade_rubric_item on the parsed reply:
\*   if "criteria_met" in d: label = d["criteria_met"];
\*                           if label is True or label is False: break
\* `in` raises TypeError on a number, null or boolean; on an array or a
\* string it is a membership / substring test, and the subscript by a string
\* that follows raises TypeError.
CheckVerdict(d) ==
    CASE d.t = "object" ->
           IF d.criteria_met \in {"true", "false"} THEN "accept" ELSE "retry"
      [] d.t \in {"array", "string"} ->
           IF d.mentions THEN "raise" ELSE "retry"
      [] OTHER -> "raise"

\* A reply text that is a verdict: a JSON object, bare or in a ```json fence,
\* whose criteria_met is true or false.  Every other reply is invalid.
IsVerdictText(content) ==
    /\ content.is_text
    /\ content.fence \in {"none", "json"}
    /\ content.json.t = "object"
    /\ content.json.criteria_met \in {"true", "false"}

\* One pass of the while loop on one API outcome: what happens and, when the
\* reply is accepted, the dictionary grade_rubric_item returns.  error stands
\* for str(e) of the exception raised, named by its type.
GradeReply(api) ==
    LET parsed == parse_json_to_dict(chat_completion(api))
    IN  IF parsed.raised
        THEN [outcome |-> "raise", error |-> parsed.error, verdict |-> EmptyDict]
        ELSE LET o == CheckVerdict(parsed.value)
             IN  [outcome |-> o,
                  error |-> IF o = "raise" THEN "TypeError" ELSE "",
                  verdict |-> parsed.value]

\* ------------------------------------------------ grade_veterinary_sample

\* The indices of the items that carry tag, in rubric order: the list
\* rubric_tag_items_grades[tag] of a rubric whose items repeat no tag.
IndicesWithTag(rubric_items, tag) ==
    LET Carries(i) == tag \in Range(rubric_items[i].tags)
    IN  SelectSeq([i \in 1..Len(rubric_items) |-> i], Carries)

Pick(s, idx) == [k \in 1..Len(idx) |-> s[idx[k]]]

RubricTags(rubric_items) ==
    UNION {Range(rubric_items[i].tags) : i \in 1..Len(rubric_items)}

\* a tag without positive items reported as 0.0
rubric_tag_scores_ZeroForUndefined(rubric_items, grading_response_list) ==
    LET score(tag) ==
            LET idx == IndicesWithTag(rubric_items, tag)
                s == calculate_vetbench_score(Pick(rubric_items, idx),
                                              Pick(grading_response_list, idx))
            IN  IF IsNone(s) THEN ZeroScore ELSE s
    IN  [tag \in RubricTags(rubric_items) |-> score(tag)]

\* rubric_tag_scores: the score of each tag over the items that carry it,
\* without the tags whose score is None.
rubric_tag_scores(rubric_items, grading_response_list) ==
    LET score(tag) ==
            LET idx == IndicesWithTag(rubric_items, tag)
            IN  calculate_vetbench_score(Pick(rubric_items, idx),
                                         Pick(grading_response_list, idx))
        kept == {tag \in RubricTags(rubric_items) : ~IsNone(score(tag))}
    IN  [tag \in kept |-> score(tag)]

\* an update that keeps the value of a key that is already there
Update_KeepsExisting(d, e) ==
    [k \in DOMAIN d \cup DOMAIN e |-> IF k \in DOMAIN d THEN d[k] ELSE e[k]]

\* dict.update
Update(d, e) ==
    [k \in DOMAIN d \cup DOMAIN e |-> IF k \in DOMAIN e THEN e[k] ELSE d[k]]

\* f"[{criteria_met}]" for the value kept in the verdict.
FormatLabel(v) ==
    CASE v = "true" -> "[True]"
      [] v = "false" -> "[False]"
      [] v = "null" -> "[None]"
      [] OTHER -> "[other]"

\* grading_response.get("explanation", "No explanation provided")
GetExplanation(grading_response) ==
    IF grading_response.explanation = "absent"
    THEN "No explanation provided"
    ELSE "judge explanation"

\* an explanation list left in rubric order
SortExplanations_RubricOrder(lines) == lines

\* list.sort(key=lambda x: x.startswith("[False]"), reverse=True): a stable
\* sort, the "[False]" lines first.
SortExplanations(lines) ==
    LET IsFalse(x) == x.label = "[False]"
        IsOther(x) == x.label # "[False]"
    IN  SelectSeq(lines, IsFalse) \o SelectSeq(lines, IsOther)

\* str(e) of the exception that ends grade_veterinary_sample after the
\* grading loop: the KeyError of calculate_vetbench_score, named by its type,
\* or an AssertionError, whose str() is empty.
SampleError(rubric_items, grading_response_list) ==
    IF IsKeyError(calculate_vetbench_score(rubric_items, grading_response_list))
    THEN "KeyError"
    ELSE ""

\* The score is computed and the three assertions of grade_veterinary_sample
\* hold.
AssertionsHold(example_tags, rubric_items, grading_response_list) ==
    /\ ~IsKeyError(calculate_vetbench_score(rubric_items, grading_response_list))
    /\ ~IsNone(calculate_vetbench_score(rubric_items, grading_response_list))
    /\ Cardinality(Range(example_tags)) = Len(example_tags)
    /\ \A i \in 1..Len(rubric_items) :
          Cardinality(Range(rubric_items[i].tags)) = Len(rubric_items[i].tags)

\* The triple grade_veterinary_sample returns once every item is graded and
\* its assertions hold.
grade_veterinary_sample(example_tags, rubric_items, grading_response_list) ==
    LET overall_score == calculate_vetbench_score(rubric_items, grading_response_list)
        example_tag_scores == [tag \in Range(example_tags) |-> overall_score]
        metrics ==
            Update(Update([k \in {"overall_score"} |-> overall_score],
                          example_tag_scores),
                   rubric_tag_scores(rubric_items, grading_response_list))
        lines ==
            [i \in 1..Len(rubric_items) |->
                [label |-> FormatLabel(grading_response_list[i].criteria_met),
                 item |-> i,
                 explanation |-> GetExplanation(grading_response_list[i])]]
        rubric_items_with_grades ==
            [i \in 1..Len(rubric_items) |->
                [criterion |-> to_dict(rubric_items[i]).criterion,
                 points |-> to_dict(rubric_items[i]).points,
                 tags |-> to_dict(rubric_items[i]).tags,
                 criteria_met |-> grading_response_list[i].criteria_met,
                 explanation |-> GetExplanation(grading_response_list[i])]]
    IN  [metrics |-> metrics,
         readable_explanation |-> SortExplanations(lines),
         rubric_items_with_grades |-> rubric_items_with_grades]

\* --------------------------------------------------------- VetBenchResult

VetBenchResult(overall_score, metrics, rubric_items_with_grades, evaluation_details) ==
    [overall_score |-> overall_score,
     metrics |-> metrics,
     rubric_items_with_grades |-> rubric_items_with_grades,
     evaluation_details |-> evaluation_details]

\* The return of the `if not self.model_client` branch.
NoClientResult == VetBenchResult(ZeroScore, <<>>, <<>>, <<>>)

\* an except branch that hands back the grades collected so far
ExceptResult_KeepsGrades(e, rubric_items, grading_response_list) ==
    VetBenchResult(ZeroScore, <<>>,
        [i \in 1..Len(grading_response_list) |->
            [criterion |-> rubric_items[i].criterion,
             points |-> rubric_items[i].points,
             tags |-> rubric_items[i].tags,
             criteria_met |-> grading_response_list[i].criteria_met,
             explanation |-> GetExplanation(grading_response_list[i])]],
        [error |-> e])

\* The return of the `except Exception as e` branch; e is str(e).  The
\* locals of grade_veterinary_sample are out of its reach.
ExceptResult(e, rubric_items, grading_response_list) ==
    VetBenchResult(ZeroScore, <<>>, <<>>, [error |-> e])

\* The return of the try branch.
ScoredResult(context, example_tags, rubric_items, grading_response_list) ==
    LET g == grade_veterinary_sample(example_tags, rubric_items, grading_response_list)
    IN  VetBenchResult(g.metrics["overall_score"], g.metrics,
            g.rubric_items_with_grades,
            [readable_explanation |-> g.readable_explanation,
             context |-> context,
             rubric_count |-> Len(rubric_items)])

\* ------------------------------------------- rerank_documents_with_openai

\* The longest candidate list handed to the reranker.
MaxDocs == 3

\* Scores are floats; the model writes them in tenths, 8 for 0.8.
ScoreZero == 0
ScoreOne == 10

\* A list of n candidates as hybrid_search builds them: distinct chunks, each
\* with the score of the retrieval.
Candidates(n) == [i \in 1..n |-> [chunk_id |-> i, score |-> (3 * i) % 10]]

\* What the judge can put in relevance_score or write as a number in a text
\* reply: nothing validates the range.
JudgeNumbers == {-2, 3, 8, 15}

\* The ends of openai_client.beta.chat.completions.parse: the call raises
\* (API error, or the library fails to parse the reply), the response has
\* no choices, message.parsed is None, or message.parsed carries a score.
StructuredOutcomes(reachable) ==
    IF ~reachable
    THEN {[kind |-> "raises", value |-> 0]}
    ELSE {[kind |-> k, value |-> 0] : k \in {"raises", "no_choices", "no_parsed"}}
         \cup {[kind |-> "parsed", value |-> v] : v \in JudgeNumbers}

\* The floats that are no finite number, as scores: not-a-number, which
\* compares false with everything, and the two infinities, beyond every
\* finite score of the model.
NaN == 1000
Inf == 999

\* a < b on floats.
FloatLess(a, b) == a # NaN /\ b # NaN /\ a < b

\* A text reply, token by token: a decimal number, a word, white space, and
\* the words float() reads as a float although they are no decimal number:
\* "nan", and "inf" or "infinity" with its sign, in any case.
Num(v) == [kind |-> "number", value |-> v]
Word == [kind |-> "word", value |-> 0]
Space == [kind |-> "space", value |-> 0]
NanWord == [kind |-> "nan", value |-> 0]
InfWord(sign) == [kind |-> "inf", value |-> sign]

\* "0.8", " 0.3\n", "Score: 0.8 points", "relevant", "inf", "nan"
FallbackTexts ==
    { <<Num(8)>>,
      <<Space, Num(3), Space>>,
      <<Word, Space, Num(8), Space, Word>>,
      <<Word>>,
      <<InfWord(1)>>,
      <<NanWord>> }

NoText == <<>>

\* The ends of openai_client.chat.completions.create: the call raises, the
\* message has content None, or the message has a text.
FallbackOutcomes(reachable) ==
    IF ~reachable
    THEN {[kind |-> "raises", text |-> NoText]}
    ELSE {[kind |-> k, text |-> NoText] : k \in {"raises", "none_content"}}
         \cup {[kind |-> "text", text |-> t] : t \in FallbackTexts}

\* str.strip()
RECURSIVE Strip(_)
Strip(text) ==
    IF text = <<>> THEN text
    ELSE IF Head(text).kind = "space" THEN Strip(Tail(text))
    ELSE IF text[Len(text)].kind = "space" THEN Strip(SubSeq(text, 1, Len(text) - 1))
    ELSE text

\* float(s): white space at the ends is skipped; the value when the rest of
\* s is one number, "nan" or a signed "inf", ValueError otherwise.
Float(text) ==
    LET s == Strip(text)
    IN  IF Len(s) = 1 /\ s[1].kind = "number"
        THEN [raised |-> FALSE, value |-> s[1].value]
        ELSE IF Len(s) = 1 /\ s[1].kind = "nan"
        THEN [raised |-> FALSE, value |-> NaN]
        ELSE IF Len(s) = 1 /\ s[1].kind = "inf"
        THEN [raised |-> FALSE, value |-> s[1].value * Inf]
        ELSE [raised |-> TRUE, value |-> ScoreZero]

\* a try body that asks again in plain text when the structured verdict
\* scores 0.0 or less
StructuredStep_FallbackOnLowScore(outcome) ==
    CASE outcome.kind \in {"raises", "no_choices"} ->
            [next |-> "fallback", score |-> ScoreZero]
      [] outcome.kind = "parsed" /\ outcome.value <= ScoreZero ->
            [next |-> "fallback", score |-> ScoreZero]
      [] outcome.kind = "parsed" ->
            [next |-> "done", score |-> outcome.value]
      [] OTHER ->
            [next |-> "done", score |-> ScoreZero]

\* The try body of score_document after the structured call: the score
\* returned, or the fallback entered from the except branch.
StructuredStep(outcome) ==
    CASE outcome.kind \in {"raises", "no_choices"} ->
            [next |-> "fallback", score |-> ScoreZero]
      [] outcome.kind = "parsed" ->
            [next |-> "done", score |-> outcome.value]
      [] OTHER ->
            [next |-> "done", score |-> ScoreZero]

\* an except branch that falls back on the score of the retrieval when the
\* fallback call raises
FallbackScore_KeepsRetrievalScore(outcome, doc) ==
    CASE outcome.kind = "raises" -> doc.score
      [] outcome.kind = "none_content" -> ScoreZero
      [] OTHER ->
            IF Float(Strip(outcome.text)).raised
            THEN ScoreZero
            ELSE Float(Strip(outcome.text)).value

\* The except branch of score_document after the fallback call: the score
\* returned for doc.
FallbackScore(outcome, doc) ==
    CASE outcome.kind = "raises" -> ScoreZero
      [] outcome.kind = "none_content" -> ScoreZero
      [] OTHER ->
            IF Float(Strip(outcome.text)).raised
            THEN ScoreZero
            ELSE Float(Strip(outcome.text)).value

\* an early return for the empty list only
EarlyReturn_OnlyWhenEmpty(client, docs) == docs = <<>>

\* `if not openai_client or not documents: return documents`
EarlyReturn(client, docs) == ~client \/ docs = <<>>

\* a descending sort that is not stable: entries of equal score come out
\* in reverse
SortedByScore_TiesReversed(scored_docs) ==
    LET n == Len(scored_docs)
        pos(i) ==
            Cardinality({j \in 1..n : scored_docs[j].score > scored_docs[i].score})
            + Cardinality({j \in (i + 1)..n :
                              scored_docs[j].score = scored_docs[i].score})
            + 1
    IN  [k \in 1..n |-> scored_docs[CHOOSE i \in 1..n : pos(i) = k]]

Reverse(s) == [k \in 1..Len(s) |-> s[Len(s) + 1 - k]]

\* count_run of list.sort: the length of the run at the head of s, which is
\* either non-descending or strictly descending.  i is the last index of the
\* run so far.
RECURSIVE RunEnd(_, _, _)
RunEnd(s, i, descending) ==
    IF i = Len(s) THEN i
    ELSE IF FloatLess(s[i + 1].score, s[i].score) = descending
    THEN RunEnd(s, i + 1, descending)
    ELSE i

\* The binary search of binarysort: the place in l..r at which pivot goes
\* into the sorted slice in front of it.
RECURSIVE InsertionPoint(_, _, _, _)
InsertionPoint(s, pivot, l, r) ==
    LET p == l + ((r - l) \div 2)
        l2 == IF FloatLess(pivot.score, s[p].score) THEN l ELSE p + 1
        r2 == IF FloatLess(pivot.score, s[p].score) THEN p ELSE r
    IN  IF l2 < r2 THEN InsertionPoint(s, pivot, l2, r2) ELSE l2

\* binarysort: the entries from index start on are inserted one by one into
\* the sorted slice in front of them.
RECURSIVE BinarySort(_, _)
BinarySort(s, start) ==
    IF start > Len(s) THEN s
    ELSE LET at == InsertionPoint(s, s[start], 1, start)
         IN  BinarySort(SubSeq(s, 1, at - 1) \o <<s[start]>>
                            \o SubSeq(s, at, start - 1)
                            \o SubSeq(s, start + 1, Len(s)),
                        start + 1)

\* list.sort on a list shorter than 64: the run at the head, reversed when
\* it descends, and the rest inserted by binarysort.  The order is the
\* stable ascending order when no score is not-a-number.
ListSort(s) ==
    IF Len(s) < 2 THEN s
    ELSE LET descending == FloatLess(s[2].score, s[1].score)
             n == RunEnd(s, 2, descending)
             run == IF descending THEN Reverse(SubSeq(s, 1, n)) ELSE SubSeq(s, 1, n)
         IN  BinarySort(run \o SubSeq(s, n + 1, Len(s)), n + 1)

\* sorted(scored_docs, key=lambda x: x[0], reverse=True): the list is
\* reversed, sorted and reversed again, which keeps entries of equal score
\* in their order.
SortedByScore(scored_docs) == Reverse(ListSort(Reverse(scored_docs)))

\* a gather that hands back the result of the task that returned first
\* ahead of the others
gather_FirstCompletedFirst(results, first) ==
    LET Later(i) == i # first
        rest == SelectSeq([i \in 1..Len(results) |-> i], Later)
    IN  <<results[first]>> \o [k \in 1..Len(rest) |-> results[rest[k]]]

\* asyncio.gather(*scoring_tasks): the results in the order of the tasks,
\* whichever task returned first.
gather(results, first) == results

\* A task of the gather before it runs.
NewTask ==
    [pc |-> "created", score |-> ScoreZero,
     structured |-> "none", fallback |-> [kind |-> "none", text |-> NoText],
     structured_calls |-> 0, fallback_calls |-> 0]

\* -------------------------------------------- VectorService.hybrid_search

\* The most entities in the collection a service starts over, and the
\* largest top_k of a call.
MaxEntities == 4
MaxTopK == 2

DOCUMENT_MULTIPLIER == 3

\* Values of dense_weight and sparse_weight, in tenths: 0.3 and 0.7, the
\* defaults.
Weights == {3, 7}

\* What an entity scores for the query of the call: the inner product of
\* its dense vector with the query embedding, 0 for an entity stored with
\* the zero vector, and the BM25 score of the query text, 0 when no term of
\* the query occurs in the entity.
EntityScores == {[dense |-> d, sparse |-> s] : d \in {0, 3}, s \in {0, 2}}

\* chunk_id = f"chunk_{i + 1}", n being i + 1.
GeneratedChunkId(n) == "chunk_" \o ToString(n)

\* An entity of the collection: its primary key id, which insert_documents
\* also stores as chunk_id, and its scores.
Entity(id, dense, sparse) == [id |-> id, dense |-> dense, sparse |-> sparse]

\* The collections a service starts over: what one call of insert_documents
\* stored for a list of documents without chunk_id, entity i under the key
\* chunk_<i>; each of them scores with one request of the query at least,
\* and they are taken in the order of their dense scores and then of their
\* sparse scores, best first.
Collections ==
    UNION {{[i \in 1..n |-> Entity(GeneratedChunkId(i), e[i].dense, e[i].sparse)] :
               e \in {f \in [1..n -> EntityScores \ {[dense |-> 0, sparse |-> 0]}] :
                         \A i \in 1..(n - 1) :
                             \/ f[i].dense > f[i + 1].dense
                             \/ /\ f[i].dense = f[i + 1].dense
                                /\ f[i].sparse >= f[i + 1].sparse}} :
           n \in 0..MaxEntities}

\* What _get_dense_embedding returns: the embedding of the text, or the
\* zero vector (no client, blank text, API error).
Embeddings == {"embedding", "zeros"}

\* The ends of _get_dense_embedding: the API returns the embedding, the
\* early return (no client or a blank text), the API call raises.
EmbeddingOutcomes == {"embedded", "no_client_or_blank", "api_error"}

\* _get_dense_embedding: the API error is caught and the zero vector
\* returned.
get_dense_embedding(outcome) ==
    IF outcome = "embedded" THEN "embedding" ELSE "zeros"

\* A document handed to insert_documents: its chunk_id, "" when it has
\* none, and its section_text, a text or None.
NoSectionText == "None"
Document(chunk_id, section_text) ==
    [chunk_id |-> chunk_id, section_text |-> section_text]

\* The lists handed to insert_documents: the empty list, two documents
\* without chunk_id, and a document whose section_text is None ahead of
\* one with a text and the chunk_id of a table row.
DocumentLists ==
    { <<>>,
      <<Document("", "text"), Document("", "text")>>,
      <<Document("", NoSectionText), Document("table_disease_1", "text")>> }

\* How `await self._get_dense_embedding(query)` ends: without a client
\* with the early return; with one, the query may be blank, the API may
\* return the embedding, the API call may raise.
QueryOutcomes(client) ==
    IF client THEN EmbeddingOutcomes ELSE {"no_client_or_blank"}

\* How `await self._get_dense_embedding(doc.get('section_text', ''))` ends
\* for a document: without a client with the early return; with one, for a
\* text, as the API call ends, and for the section_text None with the
\* AttributeError of None.strip().
DocumentOutcomes(doc, client) ==
    IF ~client
    THEN {"no_client_or_blank"}
    ELSE IF doc.section_text = NoSectionText
    THEN {"raises"}
    ELSE {"embedded", "api_error"}

\* document_data of the i-th document of the list (i counted from 1): the
\* caller's chunk_id or chunk_<i> as id and chunk_id, the dense vector that
\* _get_dense_embedding returned, the sparse vector that the BM25 function
\* of the collection makes of str(section_text).  For the query of the
\* call a text scores 3 with its embedding and 2 with its terms, the
\* string 'None' nothing.
document_data(doc, i, dense_vector) ==
    Entity(IF doc.chunk_id = "" THEN GeneratedChunkId(i) ELSE doc.chunk_id,
           IF dense_vector = "zeros" THEN 0 ELSE 3,
           IF doc.section_text = NoSectionText THEN 0 ELSE 2)

\* an over-fetch factor of one
SubListLimit_NoOverfetch(k) == k

\* limit=top_k * DOCUMENT_MULTIPLIER
SubListLimit(k) == k * DOCUMENT_MULTIPLIER

AnnSearchRequest(anns_field, metric_type, limit) ==
    [anns_field |-> anns_field, metric_type |-> metric_type, limit |-> limit]

\* The arguments of self.client.hybrid_search: the dense request first, the
\* sparse request second, and WeightedRanker(sparse_weight, dense_weight).
HybridSearchRequest(k, dw, sw) ==
    [reqs |-> <<AnnSearchRequest("dense_vector", "IP", SubListLimit(k)),
                AnnSearchRequest("sparse_vector", "BM25", SubListLimit(k))>>,
     ranker |-> <<sw, dw>>,
     limit |-> k]

\* The score of an entity for one request.  The inner product with the zero
\* vector is 0.
FieldScore(entity, req, embedding) ==
    IF req.anns_field = "dense_vector"
    THEN IF embedding = "zeros" THEN 0 ELSE entity.dense
    ELSE entity.sparse

\* The sub-list of one request, as places in coll: the req.limit best
\* entities, by descending score and then by place; a full-text request finds only the entities in
\* which a term of the query occurs.
SubList(coll, req, embedding) ==
    LET found == {i \in DOMAIN coll :
                     req.anns_field = "sparse_vector" =>
                         FieldScore(coll[i], req, embedding) > 0}
        score == [i \in found |-> FieldScore(coll[i], req, embedding)]
        rank == [i \in found |->
                    Cardinality({j \in found : score[j] > score[i]})
                    + Cardinality({j \in found : j < i /\ score[j] = score[i]})
                    + 1]
    IN  {i \in found : rank[i] <= req.limit}

\* The sub-lists of the requests, in the order of the requests.
SubLists(coll, request, embedding) ==
    [r \in 1..Len(request.reqs) |-> SubList(coll, request.reqs[r], embedding)]

\* WeightedRanker over the sub-lists: the k-th weight goes with the k-th
\* request; an entity missing from a sub-list gets nothing from it.
Weighted(lists, coll, request, embedding, i) ==
    SumSeq([r \in 1..Len(request.reqs) |->
               IF i \in lists[r]
               THEN request.ranker[r] * FieldScore(coll[i], request.reqs[r], embedding)
               ELSE 0])

\* The entities of either sub-list.
Merged(coll, request, embedding) ==
    UNION Range(SubLists(coll, request, embedding))

\* The collection as a search sees it.  The primary key id is the identity
\* of an entity: a search finds one entity per key.  insert does not reject
\* a key that the collection holds already, and which entity of such a key
\* a search finds is not settled by the code of the service: any one.
KeyViews(coll) ==
    {S \in SUBSET DOMAIN coll :
        \A i \in DOMAIN coll :
            Cardinality({j \in S : coll[j].id = coll[i].id}) = 1}

\* The entities of coll at the places in view, in their order.
Restrict(coll, view) ==
    LET place(k) == CHOOSE i \in view : Cardinality({j \in view : j < i}) = k - 1
    IN  [k \in 1..Cardinality(view) |-> coll[place(k)]]

\* MilvusClient.hybrid_search over the entities a search sees, one per
\* key: the sub-lists are merged by id, one hit per id with the weighted
\* score of its entity, by descending score and then by place, the first
\* request.limit of them.
MilvusHybridSearch(coll, request, embedding) ==
    LET lists == SubLists(coll, request, embedding)
        found == UNION Range(lists)
        ids == {coll[i].id : i \in found}
        place == [id \in ids |->
                    CHOOSE i \in found :
                        /\ coll[i].id = id
                        /\ \A j \in found : coll[j].id = id => i <= j]
        score == [id \in ids |->
                    Weighted(lists, coll, request, embedding, place[id])]
        rank == [id \in ids |->
                    Cardinality({other \in ids : score[other] > score[id]})
                    + Cardinality({other \in ids :
                                      /\ place[other] < place[id]
                                      /\ score[other] = score[id]})
                    + 1]
        n == IF Cardinality(ids) < request.limit
             THEN Cardinality(ids) ELSE request.limit
    IN  [k \in 1..n |->
            LET id == CHOOSE other \in ids : rank[other] = k
            IN  [id |-> id, distance |-> score[id],
                 entity |-> [chunk_id |-> id]]]

\* "Process results": one document per hit, in the order of the hits.
ProcessResults(hits) ==
    [k \in 1..Len(hits) |->
        [chunk_id |-> hits[k].entity.chunk_id, score |-> hits[k].distance]]

\* What hybrid_search returns when the search does not raise.
HybridSearchResult(coll, embedding, k, dw, sw) ==
    ProcessResults(MilvusHybridSearch(coll, HybridSearchRequest(k, dw, sw), embedding))

NoRequest == <<>>

\* ------------------------------------------------------------------ state

VARIABLES
    model_client,            \* whether self.model_client is set
    judge_reachable,         \* whether the API behind the client answers at all
    veterinary_rubrics,      \* self.veterinary_rubrics
    pc,                      \* where the call is: idle, grading, call, await, done
    query,                   \* argument query
    context,                 \* argument context
    rubric_items,            \* local rubric_items of the call
    example_tags,            \* local example_tags of the call
    grading_response_list,   \* local of grade_veterinary_sample
    judge_calls,             \* chat_completion calls made for the current item
    invalid_replies,         \* replies to them that were no verdict (see IsVerdictText)
    result                   \* the VetBenchResult returned

\* rerank_documents_with_openai
VARIABLES
    openai_client,           \* whether the argument openai_client is set
    documents,               \* argument documents
    rerank_pc,               \* where the call is: idle, gather, done
    tasks,                   \* the score_document coroutines of the gather
    first_done,              \* the task that returned first, 0 while none has
    reranked                 \* the list returned

rerank_vars == <<openai_client, documents, rerank_pc, tasks, first_done, reranked>>

\* VectorService: the service and its Milvus collection
VARIABLES
    service_openai_client,   \* whether self.openai_client is set
    collection_exists,       \* whether the collection exists in Milvus
    collection               \* its entities, in the order of their insertion

store_vars == <<service_openai_client, collection_exists, collection>>

\* VectorService.hybrid_search
VARIABLES
    top_k,                   \* argument top_k
    dense_weight,            \* argument dense_weight
    sparse_weight,           \* argument sparse_weight
    hybrid_pc,               \* where the call is: idle, embedding, search,
                             \* returned, failed
    embedding_outcome,       \* how _get_dense_embedding ended
    query_embedding,         \* local query_embedding
    search_request,          \* the arguments given to self.client.hybrid_search
    searched,                \* the entities that call of the client searched
    search_results           \* the list returned

search_vars == <<top_k, dense_weight, sparse_weight, hybrid_pc,
                 embedding_outcome, query_embedding, search_request,
                 searched, search_results>>

\* VectorService.insert_documents
VARIABLES
    insert_pc,               \* where the call is: idle, embedding, insert,
                             \* returned
    insert_docs,             \* argument documents
    insert_i,                \* the document the loop is at, counted from 1
    insert_data,             \* local data
    insert_result            \* what the call returned: "none" while it has not

insert_vars == <<insert_pc, insert_docs, insert_i, insert_data, insert_result>>

\* VectorService.initialize
VARIABLES
    setup_pc                 \* where _setup_collection is: idle, the thread
                             \* call it awaits, done, raised

hybrid_vars == <<store_vars, search_vars, insert_vars, setup_pc>>

vars == <<model_client, judge_reachable, veterinary_rubrics, pc, query, context,
          rubric_items, example_tags, grading_response_list, judge_calls,
          invalid_replies, result, rerank_vars, hybrid_vars>>

\* What an evaluation never writes.
env == <<model_client, judge_reachable, veterinary_rubrics, rerank_vars,
         hybrid_vars>>
args == <<query, context, rubric_items, example_tags>>

\* Counters above these marks mean "more than MaxRetries invalid replies".
InvalidOverflow == MaxRetries + 1
CallsOverflow == MaxRetries + 2

Count(n, overflow) == IF n < overflow THEN n + 1 ELSE overflow

\* No call of rerank_documents_with_openai was made.
RerankIdle ==
    /\ openai_client = FALSE
    /\ documents = <<>>
    /\ rerank_pc = "idle"
    /\ tasks = <<>>
    /\ first_done = 0
    /\ reranked = <<>>

\* No call of hybrid_search, insert_documents or initialize was made.
HybridIdle ==
    /\ top_k = 0
    /\ dense_weight = 0
    /\ sparse_weight = 0
    /\ hybrid_pc = "idle"
    /\ embedding_outcome = "none"
    /\ query_embedding = "none"
    /\ search_request = NoRequest
    /\ searched = <<>>
    /\ search_results = <<>>
    /\ insert_pc = "idle"
    /\ insert_docs = <<>>
    /\ insert_i = 0
    /\ insert_data = <<>>
    /\ insert_result = "none"
    /\ setup_pc = "idle"

\* The evaluator after construction, before evaluate is called.
Init ==
    /\ model_client \in BOOLEAN
    /\ judge_reachable \in BOOLEAN
    /\ veterinary_rubrics \in RubricTables
    /\ pc = "idle"
    /\ query = <<>>
    /\ context = ""
    /\ rubric_items = <<>>
    /\ example_tags = <<>>
    /\ grading_response_list = <<>>
    /\ judge_calls = 0
    /\ invalid_replies = 0
    /\ result = <<>>
    /\ RerankIdle
    /\ service_openai_client = FALSE
    /\ collection_exists = FALSE
    /\ collection = <<>>
    /\ HybridIdle

\* evaluate(...) with no client: the early return.
EvaluateNoClient(q, ctx) ==
    /\ pc = "idle"
    /\ ~model_client
    /\ query' = q
    /\ context' = ctx
    /\ result' = NoClientResult
    /\ pc' = "done"
    /\ UNCHANGED <<env, rubric_items, example_tags, grading_response_list,
                   judge_calls, invalid_replies>>

\* evaluate(...) up to the call of grade_veterinary_sample: rubric and example
\* tags are chosen from the query.
EvaluateSelect(q, ctx) ==
    /\ pc = "idle"
    /\ model_client
    /\ query' = q
    /\ context' = ctx
    /\ rubric_items' = veterinary_rubrics[SelectCategory(q).category]
    /\ example_tags' = <<ctx>> \o SelectCategory(q).tags
    /\ grading_response_list' = <<>>
    /\ pc' = "grading"
    /\ UNCHANGED <<env, judge_calls, invalid_replies, result>>

\* for rubric_item in rubric_items: grade_rubric_item(rubric_item) is entered
\* for the next item; the items are graded one after the other.
EnterGradeRubricItem ==
    /\ pc = "grading"
    /\ Len(grading_response_list) < Len(rubric_items)
    /\ judge_calls' = 0
    /\ invalid_replies' = 0
    /\ pc' = "call"
    /\ UNCHANGED <<env, args, grading_response_list, result>>

\* while True: response = await self.model_client.chat_completion(...)
CallJudge ==
    /\ pc = "call"
    /\ judge_calls' = Count(judge_calls, CallsOverflow)
    /\ pc' = "await"
    /\ UNCHANGED <<env, args, grading_response_list, invalid_replies, result>>

\* The reply is a verdict: break, return it, append it to the list.
ReplyAccepted ==
    /\ pc = "await"
    /\ \E api \in ApiOutcomes(judge_reachable) :
          /\ GradeReply(api).outcome = "accept"
          /\ grading_response_list' =
                Append(grading_response_list,
                       [criteria_met |-> GradeReply(api).verdict.criteria_met,
                        explanation |-> GradeReply(api).verdict.explanation])
          /\ invalid_replies' =
                IF IsVerdictText(chat_completion(api))
                THEN invalid_replies
                ELSE Count(invalid_replies, InvalidOverflow)
    /\ pc' = "grading"
    /\ UNCHANGED <<env, args, judge_calls, result>>

\* The reply is rejected: "Grading failed due to bad JSON output, retrying..."
ReplyRejected ==
    /\ pc = "await"
    /\ \E api \in ApiOutcomes(judge_reachable) :
          /\ GradeReply(api).outcome = "retry"
          /\ invalid_replies' =
                IF IsVerdictText(chat_completion(api))
                THEN invalid_replies
                ELSE Count(invalid_replies, InvalidOverflow)
    /\ pc' = "call"
    /\ UNCHANGED <<env, args, grading_response_list, judge_calls, result>>

\* Handling the reply raises; the exception leaves grade_veterinary_sample
\* and is caught by the except branch of evaluate.
ReplyRaises ==
    /\ pc = "await"
    /\ \E api \in ApiOutcomes(judge_reachable) :
          /\ GradeReply(api).outcome = "raise"
          /\ result' = ExceptResult(GradeReply(api).error, rubric_items,
                                    grading_response_list)
    /\ pc' = "done"
    /\ UNCHANGED <<env, args, grading_response_list, judge_calls, invalid_replies>>

\* Every item is graded and the assertions hold: scores, tags, explanations,
\* and the return of the try branch.
ReturnScored ==
    /\ pc = "grading"
    /\ Len(grading_response_list) = Len(rubric_items)
    /\ AssertionsHold(example_tags, rubric_items, grading_response_list)
    /\ result' = ScoredResult(context, example_tags, rubric_items,
                              grading_response_list)
    /\ pc' = "done"
    /\ UNCHANGED <<env, args, grading_response_list, judge_calls, invalid_replies>>

\* Every item is graded and an assertion fails (or the score cannot be
\* computed): the exception is caught by the except branch of evaluate.
ReturnAssertionFailed ==
    /\ pc = "grading"
    /\ Len(grading_response_list) = Len(rubric_items)
    /\ ~AssertionsHold(example_tags, rubric_items, grading_response_list)
    /\ result' = ExceptResult(SampleError(rubric_items, grading_response_list),
                              rubric_items, grading_response_list)
    /\ pc' = "done"
    /\ UNCHANGED <<env, args, grading_response_list, judge_calls, invalid_replies>>

Next ==
    \/ \E q \in Queries, ctx \in Contexts : EvaluateNoClient(q, ctx)
    \/ \E q \in Queries, ctx \in Contexts : EvaluateSelect(q, ctx)
    \/ EnterGradeRubricItem
    \/ CallJudge
    \/ ReplyAccepted
    \/ ReplyRejected
    \/ ReplyRaises
    \/ ReturnScored
    \/ ReturnAssertionFailed

Spec == Init /\ [][Next]_vars

\* The event loop runs every step of the coroutine that can run, a pending
\* API call ends, and a judge that can return a verdict again and again
\* eventually does.
FairSpec ==
    /\ Init
    /\ [][Next]_vars
    /\ WF_vars(Next)
    /\ SF_vars(ReplyAccepted)

\* ------------------------------------ rerank_documents_with_openai, steps

evaluation_vars == <<model_client, veterinary_rubrics, pc, query, context,
                     rubric_items, example_tags, grading_response_list,
                     judge_calls, invalid_replies, result>>

\* No evaluation runs.
EvaluationIdle ==
    /\ model_client = FALSE
    /\ veterinary_rubrics = SourceRubrics
    /\ pc = "idle"
    /\ query = <<>>
    /\ context = ""
    /\ rubric_items = <<>>
    /\ example_tags = <<>>
    /\ grading_response_list = <<>>
    /\ judge_calls = 0
    /\ invalid_replies = 0
    /\ result = <<>>

\* Before a call of rerank_documents_with_openai.
RerankInit ==
    /\ EvaluationIdle
    /\ judge_reachable \in BOOLEAN
    /\ openai_client \in BOOLEAN
    /\ documents = <<>>
    /\ rerank_pc = "idle"
    /\ tasks = <<>>
    /\ first_done = 0
    /\ reranked = <<>>
    /\ service_openai_client = FALSE
    /\ collection_exists = FALSE
    /\ collection = <<>>
    /\ HybridIdle

\* rerank_documents_with_openai(query, docs, openai_client) with no client
\* or no document: the early return.
RerankReturnsInput(docs) ==
    /\ rerank_pc = "idle"
    /\ EarlyReturn(openai_client, docs)
    /\ documents' = docs
    /\ reranked' = docs
    /\ rerank_pc' = "done"
    /\ UNCHANGED <<evaluation_vars, hybrid_vars, judge_reachable, openai_client,
                   tasks, first_done>>

\* scoring_tasks = [score_document(doc) for doc in documents], handed to
\* asyncio.gather.
RerankGather(docs) ==
    /\ rerank_pc = "idle"
    /\ ~EarlyReturn(openai_client, docs)
    /\ documents' = docs
    /\ tasks' = [i \in 1..Len(docs) |-> NewTask]
    /\ rerank_pc' = "gather"
    /\ UNCHANGED <<evaluation_vars, hybrid_vars, judge_reachable, openai_client,
                   first_done, reranked>>

\* score_document(documents[i]) runs up to its first await: the structured
\* request is sent.
StructuredCall(i) ==
    /\ rerank_pc = "gather"
    /\ tasks[i].pc = "created"
    /\ tasks' = [tasks EXCEPT ![i].pc = "structured",
                              ![i].structured_calls = @ + 1]
    /\ UNCHANGED <<evaluation_vars, hybrid_vars, judge_reachable, openai_client,
                   documents, rerank_pc, first_done, reranked>>

\* The structured request ends and the try body returns a score.
StructuredScored(i) ==
    /\ rerank_pc = "gather"
    /\ tasks[i].pc = "structured"
    /\ \E outcome \in StructuredOutcomes(judge_reachable) :
          /\ StructuredStep(outcome).next = "done"
          /\ tasks' = [tasks EXCEPT ![i].pc = "done",
                                    ![i].structured = outcome.kind,
                                    ![i].score = StructuredStep(outcome).score]
    /\ first_done' = IF first_done = 0 THEN i ELSE first_done
    /\ UNCHANGED <<evaluation_vars, hybrid_vars, judge_reachable, openai_client,
                   documents, rerank_pc, reranked>>

\* The try body raises: the except branch sends the fallback request.
StructuredFailed(i) ==
    /\ rerank_pc = "gather"
    /\ tasks[i].pc = "structured"
    /\ \E outcome \in StructuredOutcomes(judge_reachable) :
          /\ StructuredStep(outcome).next = "fallback"
          /\ tasks' = [tasks EXCEPT ![i].pc = "fallback",
                                    ![i].structured = outcome.kind,
                                    ![i].fallback_calls = @ + 1]
    /\ UNCHANGED <<evaluation_vars, hybrid_vars, judge_reachable, openai_client,
                   documents, rerank_pc, first_done, reranked>>

\* The fallback request ends and the except branch returns a score.
FallbackReply(i) ==
    /\ rerank_pc = "gather"
    /\ tasks[i].pc = "fallback"
    /\ \E outcome \in FallbackOutcomes(judge_reachable) :
          tasks' = [tasks EXCEPT ![i].pc = "done",
                                 ![i].fallback = outcome,
                                 ![i].score = FallbackScore(outcome, documents[i])]
    /\ first_done' = IF first_done = 0 THEN i ELSE first_done
    /\ UNCHANGED <<evaluation_vars, hybrid_vars, judge_reachable, openai_client,
                   documents, rerank_pc, reranked>>

\* scored_docs = await asyncio.gather(*scoring_tasks): the results in the
\* order of the tasks, sorted, and the documents returned.
GatherReturns ==
    /\ rerank_pc = "gather"
    /\ \A i \in 1..Len(tasks) : tasks[i].pc = "done"
    /\ LET scored_docs == gather([i \in 1..Len(tasks) |->
                                     [score |-> tasks[i].score, doc |-> documents[i]]],
                                 first_done)
           reranked_docs == SortedByScore(scored_docs)
       IN  reranked' = [k \in 1..Len(reranked_docs) |-> reranked_docs[k].doc]
    /\ rerank_pc' = "done"
    /\ UNCHANGED <<evaluation_vars, hybrid_vars, judge_reachable, openai_client,
                   documents, tasks, first_done>>

RerankNext ==
    \/ \E n \in 0..MaxDocs : RerankReturnsInput(Candidates(n))
    \/ \E n \in 0..MaxDocs : RerankGather(Candidates(n))
    \/ \E i \in 1..Len(tasks) : StructuredCall(i)
    \/ \E i \in 1..Len(tasks) : StructuredScored(i)
    \/ \E i \in 1..Len(tasks) : StructuredFailed(i)
    \/ \E i \in 1..Len(tasks) : FallbackReply(i)
    \/ GatherReturns

RerankSpec == RerankInit /\ [][RerankNext]_vars

\* ------------------------------------------------- hybrid_search, steps

\* A VectorService after construction, with an OpenAI client or without:
\* the collection does not exist yet, or exists with what an earlier run
\* stored.
HybridInit ==
    /\ EvaluationIdle
    /\ judge_reachable = FALSE
    /\ RerankIdle
    /\ service_openai_client \in BOOLEAN
    /\ \/ collection_exists = TRUE /\ collection \in Collections
       \/ collection_exists = FALSE /\ collection = <<>>
    /\ HybridIdle

other_vars == <<evaluation_vars, rerank_vars, judge_reachable>>

\* hybrid_search(query, k, dw, sw) up to `await self._get_dense_embedding`.
HybridSearch(k, dw, sw) ==
    /\ hybrid_pc = "idle"
    /\ top_k' = k
    /\ dense_weight' = dw
    /\ sparse_weight' = sw
    /\ hybrid_pc' = "embedding"
    /\ UNCHANGED <<other_vars, store_vars, insert_vars, setup_pc,
                   embedding_outcome, query_embedding, search_request,
                   searched, search_results>>

\* The embedding arrives; the two requests and the ranker are built and
\* handed to self.client.hybrid_search.
GetDenseEmbedding ==
    /\ hybrid_pc = "embedding"
    /\ \E outcome \in QueryOutcomes(service_openai_client) :
          /\ embedding_outcome' = outcome
          /\ query_embedding' = get_dense_embedding(outcome)
    /\ search_request' = HybridSearchRequest(top_k, dense_weight, sparse_weight)
    /\ hybrid_pc' = "search"
    /\ UNCHANGED <<other_vars, store_vars, insert_vars, setup_pc, top_k,
                   dense_weight, sparse_weight, searched, search_results>>

\* The search of the collection, as it is now, returns its hits; they are
\* processed and returned.
SearchReturns ==
    /\ hybrid_pc = "search"
    /\ collection_exists
    /\ \E view \in KeyViews(collection) :
          /\ searched' = Restrict(collection, view)
          /\ search_results' =
                ProcessResults(MilvusHybridSearch(Restrict(collection, view),
                                                  search_request,
                                                  query_embedding))
    /\ hybrid_pc' = "returned"
    /\ UNCHANGED <<other_vars, store_vars, insert_vars, setup_pc, top_k,
                   dense_weight, sparse_weight, embedding_outcome,
                   query_embedding, search_request>>

\* The search raises, as it does when the collection does not exist:
\* `except Exception: return []`.
SearchRaises ==
    /\ hybrid_pc = "search"
    /\ search_results' = <<>>
    /\ hybrid_pc' = "failed"
    /\ UNCHANGED <<other_vars, store_vars, insert_vars, setup_pc, top_k,
                   dense_weight, sparse_weight, embedding_outcome,
                   query_embedding, search_request, searched>>

\* insert_documents returns.
InsertReturn(value) ==
    /\ insert_pc' = "returned"
    /\ insert_result' = value
    /\ insert_docs' = <<>>
    /\ insert_i' = 0
    /\ insert_data' = <<>>

\* insert_documents(docs) up to the first `await
\* self._get_dense_embedding`; `if not documents: return False`.
InsertDocuments(docs) ==
    /\ insert_pc = "idle"
    /\ IF docs = <<>>
       THEN InsertReturn("False")
       ELSE /\ insert_pc' = "embedding"
            /\ insert_docs' = docs
            /\ insert_i' = 1
            /\ insert_data' = <<>>
            /\ UNCHANGED insert_result
    /\ UNCHANGED <<other_vars, store_vars, search_vars, setup_pc>>

\* One round of the loop: the embedding of the document arrives and its
\* document_data is appended, or its processing raises and the document is
\* left out (`except Exception as doc_error: ... continue`).  After the
\* last document: `if not data: return False`, else up to `await
\* asyncio.to_thread(self.client.insert, ...)`.
InsertEmbedding ==
    /\ insert_pc = "embedding"
    /\ \E outcome \in DocumentOutcomes(insert_docs[insert_i],
                                        service_openai_client) :
          LET data == IF outcome = "raises"
                      THEN insert_data
                      ELSE Append(insert_data,
                                  document_data(insert_docs[insert_i], insert_i,
                                                get_dense_embedding(outcome)))
          IN  IF insert_i < Len(insert_docs)
              THEN /\ insert_i' = insert_i + 1
                   /\ insert_data' = data
                   /\ UNCHANGED <<insert_pc, insert_docs, insert_result>>
              ELSE IF data = <<>>
              THEN InsertReturn("False")
              ELSE /\ insert_pc' = "insert"
                   /\ insert_data' = data
                   /\ UNCHANGED <<insert_docs, insert_i, insert_result>>
    /\ UNCHANGED <<other_vars, store_vars, search_vars, setup_pc>>

\* self.client.insert stores data in the collection, whatever keys the
\* collection holds; insert_documents returns True.
InsertStores ==
    /\ insert_pc = "insert"
    /\ collection_exists
    /\ collection' = collection \o insert_data
    /\ InsertReturn("True")
    /\ UNCHANGED <<other_vars, service_openai_client, collection_exists,
                   search_vars, setup_pc>>

\* self.client.insert raises, as it does when the collection does not
\* exist: `except Exception: return False`.
InsertRaises ==
    /\ insert_pc = "insert"
    /\ InsertReturn("False")
    /\ UNCHANGED <<other_vars, store_vars, search_vars, setup_pc>>

\* initialize() -> _setup_collection() up to `await
\* asyncio.to_thread(self.client.has_collection, ...)`.
Initialize ==
    /\ setup_pc = "idle"
    /\ setup_pc' = "has_collection"
    /\ UNCHANGED <<other_vars, store_vars, search_vars, insert_vars>>

\* has_collection returns: on to describe_collection when the collection
\* exists, to create_collection when it does not.
HasCollectionReturns ==
    /\ setup_pc = "has_collection"
    /\ setup_pc' = IF collection_exists
                   THEN "describe_collection" ELSE "create_collection"
    /\ UNCHANGED <<other_vars, store_vars, search_vars, insert_vars>>

\* describe_collection returns: the collection is left as it is.
DescribeCollectionReturns ==
    /\ setup_pc = "describe_collection"
    /\ collection_exists
    /\ setup_pc' = "done"
    /\ UNCHANGED <<other_vars, store_vars, search_vars, insert_vars>>

\* describe_collection raises: on to drop_collection.
DescribeCollectionRaises ==
    /\ setup_pc = "describe_collection"
    /\ setup_pc' = "drop_collection"
    /\ UNCHANGED <<other_vars, store_vars, search_vars, insert_vars>>

\* drop_collection returns: the collection and its entities are gone;
\* has_collection = False, on to create_collection.
DropCollectionReturns ==
    /\ setup_pc = "drop_collection"
    /\ collection_exists' = FALSE
    /\ collection' = <<>>
    /\ setup_pc' = "create_collection"
    /\ UNCHANGED <<other_vars, service_openai_client, search_vars, insert_vars>>

\* create_collection returns: the collection exists, empty.
CreateCollectionReturns ==
    /\ setup_pc = "create_collection"
    /\ ~collection_exists
    /\ collection_exists' = TRUE
    /\ collection' = <<>>
    /\ setup_pc' = "done"
    /\ UNCHANGED <<other_vars, service_openai_client, search_vars, insert_vars>>

\* has_collection, drop_collection or create_collection raises:
\* `except Exception as e: ... raise`, and initialize raises.
SetupRaises ==
    /\ setup_pc \in {"has_collection", "drop_collection", "create_collection"}
    /\ setup_pc' = "raised"
    /\ UNCHANGED <<other_vars, store_vars, search_vars, insert_vars>>

\* One call each of hybrid_search, insert_documents and initialize on one
\* event loop: between two awaits of one the others may run.
HybridNext ==
    \/ \E k \in 1..MaxTopK, dw \in Weights, sw \in Weights : HybridSearch(k, dw, sw)
    \/ GetDenseEmbedding
    \/ SearchReturns
    \/ SearchRaises
    \/ \E docs \in DocumentLists : InsertDocuments(docs)
    \/ InsertEmbedding
    \/ InsertStores
    \/ InsertRaises
    \/ Initialize
    \/ HasCollectionReturns
    \/ DescribeCollectionReturns
    \/ DescribeCollectionRaises
    \/ DropCollectionReturns
    \/ CreateCollectionReturns
    \/ SetupRaises

HybridSpec == HybridInit /\ [][HybridNext]_vars

\* ------------------------------------------------------------- properties

\* Sum of the points of the items whose index is in I.
RECURSIVE PointsOver(_, _)
PointsOver(items, I) ==
    IF I = {} THEN 0
    ELSE LET i == CHOOSE j \in I : TRUE
         IN  items[i].points + PointsOver(items, I \ {i})

Positive(items) == {i \in 1..Len(items) : items[i].points > 0}
Negative(items) == {i \in 1..Len(items) : items[i].points < 0}
Met(grades) == {i \in 1..Len(grades) : grades[i].criteria_met = "true"}

\* The score s is the ratio a / b (b > 0).
IsRatio(s, a, b) == s.den > 0 /\ s.num * b = a * s.den

AllGraded == Len(grading_response_list) = Len(rubric_items)
Graded == pc \in {"grading", "done"} /\ model_client /\ AllGraded
Returned == pc = "done"
Scored == Returned /\ "overall_score" \in DOMAIN result.metrics
Failed ==
    /\ Returned
    /\ DOMAIN result.metrics = {}
    /\ result.rubric_items_with_grades = <<>>
ErrorRecorded == "error" \in DOMAIN result.evaluation_details

\* C1: for every rubric list with total_possible > 0 and every list of
\* boolean verdicts, calculate_vetbench_score is achieved / total_possible,
\* total_possible summing the positive points only and achieved the points,
\* positive and negative, of the met items; a scored result carries it.
C1_ScoreIsAchievedOverTotalPossible ==
    Graded /\ PointsOver(rubric_items, Positive(rubric_items)) > 0 =>
        LET total == PointsOver(rubric_items, Positive(rubric_items))
            achieved == PointsOver(rubric_items, Met(grading_response_list))
        IN  /\ IsRatio(calculate_vetbench_score(rubric_items, grading_response_list),
                       achieved, total)
            /\ Scored =>
                 /\ IsRatio(result.overall_score, achieved, total)
                 /\ result.metrics["overall_score"] = result.overall_score

\* C1 witness: items (+5, met) and (-2, met) scored 3/5.
C1_Witness ==
    /\ Scored
    /\ Len(rubric_items) = 2
    /\ rubric_items[1].points = 5 /\ rubric_items[2].points = -2
    /\ Met(grading_response_list) = {1, 2}
    /\ result.overall_score = [num |-> 3, den |-> 5]

\* C2: for any category with total_possible > 0 and any boolean verdicts,
\* the overall_score of the evaluation is at least 0.
C2_OverallScoreNonNegative ==
    Scored => result.overall_score.num >= 0

\* C3: with total_possible > 0 and every verdict false, the score is exactly
\* 0.0 and not None.
C3_AllFalseScoresZero ==
    /\ Graded
    /\ PointsOver(rubric_items, Positive(rubric_items)) > 0
    /\ Met(grading_response_list) = {}
    => /\ calculate_vetbench_score(rubric_items, grading_response_list) = ZeroScore
       /\ Returned => result.overall_score = ZeroScore
       /\ Scored => result.metrics["overall_score"] = ZeroScore

\* C3 witness: a scored result of a rubric with positive items, none met.
C3_Witness ==
    /\ Scored
    /\ Len(rubric_items) > 0
    /\ PointsOver(rubric_items, Positive(rubric_items)) > 0
    /\ Met(grading_response_list) = {}
    /\ result.metrics["overall_score"] = ZeroScore

\* C4: evaluating against a category with only negative-point items
\* (total_possible = 0) returns a result whose overall_score is undefined,
\* never 0.0.
C4_NegativeOnlyCategoryIsUndefined ==
    /\ Returned
    /\ model_client
    /\ AllGraded
    /\ Len(rubric_items) > 0
    /\ Positive(rubric_items) = {}
    => /\ IsNone(result.overall_score)
       /\ result.overall_score # ZeroScore

\* C5: in a scored result, a tag with a positive item among the items that
\* carry it has metrics[tag] = achieved / total_possible over exactly those
\* items; a tag without one gets no entry from the rubric tags: it is
\* absent, or, being an example tag as well, keeps the overall score.
C5_TagAggregation ==
    Scored =>
        \A tag \in RubricTags(rubric_items) :
            LET carrying == {i \in 1..Len(rubric_items) :
                                tag \in Range(rubric_items[i].tags)}
                pos == carrying \cap Positive(rubric_items)
                met == carrying \cap Met(grading_response_list)
            IN  IF pos # {}
                THEN /\ tag \in DOMAIN result.metrics
                     /\ IsRatio(result.metrics[tag],
                                PointsOver(rubric_items, met),
                                PointsOver(rubric_items, pos))
                ELSE IF tag \in Range(example_tags)
                     THEN result.metrics[tag] = result.overall_score
                     ELSE tag \notin DOMAIN result.metrics

\* C5 witness: a scored result with a tag carried only by a negative item, a
\* tag whose items are a positive and a negative one, both met, and an item
\* with two tags.
C5_Witness ==
    /\ Scored
    /\ \E tag \in RubricTags(rubric_items) :
          /\ tag \notin DOMAIN result.metrics
          /\ \E i \in Negative(rubric_items) : tag \in Range(rubric_items[i].tags)
    /\ \E tag \in RubricTags(rubric_items) :
          /\ tag \in DOMAIN result.metrics
          /\ result.metrics[tag] # result.overall_score
          /\ \E i \in Positive(rubric_items) \cap Met(grading_response_list),
                j \in Negative(rubric_items) \cap Met(grading_response_list) :
                /\ tag \in Range(rubric_items[i].tags)
                /\ tag \in Range(rubric_items[j].tags)
    /\ \E i \in 1..Len(rubric_items) : Len(rubric_items[i].tags) > 1

\* C6: a reply is accepted as a verdict only if it parses to an object whose
\* criteria_met is the boolean true or false; every recorded verdict has a
\* strictly boolean criteria_met.
C6_VerdictsAreBoolean ==
    /\ \A i \in 1..Len(grading_response_list) :
          grading_response_list[i].criteria_met \in {"true", "false"}
    /\ Scored =>
          \A i \in 1..Len(result.rubric_items_with_grades) :
             result.rubric_items_with_grades[i].criteria_met \in {"true", "false"}
    /\ \A api \in ApiOutcomes(judge_reachable) :
          GradeReply(api).outcome = "accept" => IsVerdictText(chat_completion(api))

\* C6 witness: a verdict recorded after a reply whose criteria_met was no
\* boolean had been turned down.
C6_Witness ==
    /\ pc = "grading"
    /\ Len(grading_response_list) > 0
    /\ invalid_replies > 0

\* C7: k invalid replies for an item followed by a valid verdict make
\* exactly k + 1 judge calls for that item, for every k counted; the loop
\* has no cap.
C7_CallsAreInvalidRepliesPlusOne ==
    /\ (pc = "grading" /\ Len(grading_response_list) > 0
           /\ invalid_replies <= MaxRetries)
          => judge_calls = invalid_replies + 1
    /\ (pc = "call" /\ invalid_replies <= MaxRetries)
          => judge_calls = invalid_replies
    /\ (pc = "await" /\ invalid_replies <= MaxRetries)
          => judge_calls = invalid_replies + 1

\* C7 witness: two invalid replies, then a verdict: three calls.
C7_Witness ==
    /\ pc = "grading"
    /\ Len(grading_response_list) > 0
    /\ invalid_replies = 2
    /\ judge_calls = 3

\* C8: if the judge eventually returns a valid verdict for each item, the
\* evaluation eventually returns with a verdict recorded for every item of
\* the category; and it returns only when every item has its verdict.
C8_TerminatesWithEveryItemGraded ==
    /\ [](Returned /\ model_client => AllGraded)
    /\ (pc = "grading" /\ judge_reachable) ~> (Returned /\ AllGraded)

\* C9: with no client configured, or every call to the judge failing, the
\* evaluation ends failed: a result with empty metrics and the error
\* recorded.
C9_UnavailableJudgeEndsFailed ==
    /\ []((Returned /\ (~model_client \/ ~judge_reachable))
            => (Failed /\ ErrorRecorded))
    /\ (~model_client \/ ~judge_reachable) ~> Returned

\* C10: every returned result is fully scored (overall_score in metrics and
\* one graded entry per item of the category) or failed (no metrics and no
\* graded entries); none is scored in part.
C10_ScoredOrFailed ==
    Returned =>
        \/ /\ Scored
           /\ Len(result.rubric_items_with_grades) = Len(rubric_items)
           /\ \A i \in 1..Len(rubric_items) :
                 /\ result.rubric_items_with_grades[i].criterion
                       = rubric_items[i].criterion
                 /\ result.rubric_items_with_grades[i].criteria_met
                       = grading_response_list[i].criteria_met
        \/ Failed

\* C10 witness: a failed result returned when some items, not all, had been
\* graded.
C10_Witness ==
    /\ Failed
    /\ ErrorRecorded
    /\ Len(grading_response_list) > 0
    /\ Len(grading_response_list) < Len(rubric_items)

\* The rules of the category selection as the ordered list the documentation
\* gives: the keywords of each rule and its category.
CategoryRules ==
    << [keywords |-> {KwMastitis, KwDairy}, category |-> "mastitis_management"],
       [keywords |-> {KwOutbreak, KwDisease}, category |-> "disease_outbreak"],
       [keywords |-> {KwVaccination, KwVaccine}, category |-> "vaccination_schedule"],
       [keywords |-> {KwEmergency, KwUrgent}, category |-> "emergency_care"],
       [keywords |-> {KwEconomic, KwCost}, category |-> "economic_impact"] >>

DefaultCategory == "mastitis_management"

\* The rules one of whose keywords occurs in the lower-cased query.
MatchingRules(q) ==
    {i \in 1..Len(CategoryRules) :
        \E kw \in CategoryRules[i].keywords : Contains(Lower(q), kw)}

FirstMatchCategory(q) ==
    IF MatchingRules(q) = {} THEN DefaultCategory
    ELSE CategoryRules[CHOOSE i \in MatchingRules(q) :
                          \A j \in MatchingRules(q) : i <= j].category

\* C11: the rubric an evaluation grades against is the rubric of the first
\* rule, in the fixed order, one of whose keywords occurs in the lower-cased
\* query, and the rubric of mastitis_management when no rule matches; this
\* holds for every query and whatever context was passed, and the rubric
\* stays the one selected until the evaluation returns.
C11_CategoryIsFirstMatchingRule ==
    [][/\ (pc = "idle" /\ pc' = "grading") =>
             rubric_items' = veterinary_rubrics[FirstMatchCategory(query')]
       /\ pc # "idle" => UNCHANGED <<query, rubric_items>>]_vars

\* An evaluation of a query that matches three rules, in upper and lower
\* case, under the context that is not the default: it grades against the
\* rubric of the first of them.
C11_Witness ==
    /\ pc = "grading"
    /\ query = QSeveral
    /\ Cardinality(MatchingRules(query)) = 3
    /\ context = "axis:accuracy"
    /\ rubric_items = veterinary_rubrics["mastitis_management"]
    /\ rubric_items # veterinary_rubrics["disease_outbreak"]

\* The rubric items whose verdict is v, by their position in the trail.
TrailPositions(trail, grades, v) ==
    {k \in 1..Len(trail) : grades[trail[k].item].criteria_met = v}

\* C12: in the explanation trail of a scored evaluation there is one entry
\* per rubric item, each labelled with the verdict of its item, and every
\* entry of an item that was not met stands before every entry of an item
\* that was met, whatever the rubric order and the verdicts.
C12_FalseLinesBeforeTrueLines ==
    Scored =>
        LET trail == result.evaluation_details.readable_explanation
        IN  /\ Len(trail) = Len(rubric_items)
            /\ {trail[k].item : k \in 1..Len(trail)} = 1..Len(rubric_items)
            /\ \A k \in 1..Len(trail) :
                  trail[k].label =
                      FormatLabel(grading_response_list[trail[k].item].criteria_met)
            /\ \A i \in TrailPositions(trail, grading_response_list, "false") :
                  \A j \in TrailPositions(trail, grading_response_list, "true") :
                      i < j

\* A scored evaluation in which an item that was met is graded before an
\* item that was not met, so the trail is not in rubric order.
C12_Witness ==
    /\ Scored
    /\ \E i, j \in 1..Len(rubric_items) :
          /\ i < j
          /\ grading_response_list[i].criteria_met = "true"
          /\ grading_response_list[j].criteria_met = "false"
    /\ result.evaluation_details.readable_explanation[1].item # 1

\* The call went through the gather and returned.
Reranked == rerank_pc = "done" /\ tasks # <<>>

\* The place of the input candidate i in the returned list.
PlaceOf(i) == CHOOSE k \in 1..Len(reranked) : reranked[k] = documents[i]

TaskDone(i) == tasks[i].pc = "done"

\* C14: every score a task of the gather returns, on the structured path and
\* on the fallback path, lies between 0.0 and 1.0.
C14_ScoresInUnitRange ==
    \A i \in 1..Len(tasks) :
        TaskDone(i) => (ScoreZero <= tasks[i].score /\ tasks[i].score <= ScoreOne)

\* The ways a structured request fails: the call raises, the response is
\* malformed, message.parsed is None.
StructuredFailures == {"raises", "no_choices", "no_parsed"}

\* C15: a task whose structured request failed in any of these ways has sent
\* the fallback request by the time it returns its score.
C15_FallbackOnEveryStructuredFailure ==
    \A i \in 1..Len(tasks) :
        (TaskDone(i) /\ tasks[i].structured \in StructuredFailures) =>
            tasks[i].fallback_calls = 1

\* The first number of a text reply, 0.0 when it has none.
FirstNumber(text) ==
    LET numbers == {k \in 1..Len(text) : text[k].kind = "number"}
    IN  IF numbers = {} THEN ScoreZero
        ELSE text[CHOOSE k \in numbers : \A l \in numbers : k <= l].value

\* C16: the score of a task that took the fallback path is the first number
\* of the text reply, with or without text around it, and 0.0 when the reply
\* has no number or the fallback call failed.
C16_FallbackScoreIsFirstNumber ==
    \A i \in 1..Len(tasks) :
        (TaskDone(i) /\ tasks[i].fallback_calls = 1) =>
            tasks[i].score =
                IF tasks[i].fallback.kind = "text"
                THEN FirstNumber(tasks[i].fallback.text)
                ELSE ScoreZero

\* The judge requests sent so far.
RerankJudgeCalls ==
    SumSeq([i \in 1..Len(tasks) |->
               tasks[i].structured_calls + tasks[i].fallback_calls])

\* C17: a call with no client or with an empty list returns the list it was
\* given, and no judge request is ever sent for it.
C17_NoClientOrNoCandidatesReturnsInput ==
    /\ (rerank_pc # "idle" /\ (~openai_client \/ documents = <<>>)) =>
          /\ rerank_pc = "done"
          /\ reranked = documents
          /\ tasks = <<>>
    /\ ~openai_client => RerankJudgeCalls = 0

\* A call with three candidates and no client has returned them.
C17_Witness ==
    /\ rerank_pc = "done"
    /\ ~openai_client
    /\ Len(documents) = 3
    /\ reranked = documents

\* Every request of the call raised.
EveryCallRaised ==
    \A i \in 1..Len(tasks) :
        /\ tasks[i].structured = "raises"
        /\ tasks[i].fallback.kind = "raises"

\* C18: a call whose structured and fallback requests all raised, as they do
\* when the judge cannot be reached, returns, and returns the candidates in
\* the input order, each scored 0.0.
C18_UnreachableJudgeKeepsInputOrder ==
    /\ (Reranked /\ ~judge_reachable) => EveryCallRaised
    /\ (Reranked /\ EveryCallRaised) =>
          /\ reranked = documents
          /\ \A i \in 1..Len(tasks) : tasks[i].score = ScoreZero

\* Three candidates, each with a structured and a fallback request that
\* raised, returned as they came.
C18_Witness ==
    /\ Reranked
    /\ ~judge_reachable
    /\ Len(documents) = 3
    /\ \A i \in 1..Len(tasks) :
          tasks[i].structured_calls = 1 /\ tasks[i].fallback_calls = 1
    /\ EveryCallRaised
    /\ reranked = documents

\* The entities found by the dense request alone, and by the sparse request
\* alone, in the call that returned, as places among the entities searched.
DenseOnly ==
    SubList(searched, search_request.reqs[1], query_embedding)
    \ SubList(searched, search_request.reqs[2], query_embedding)
SparseOnly ==
    SubList(searched, search_request.reqs[2], query_embedding)
    \ SubList(searched, search_request.reqs[1], query_embedding)

\* docs holds a document with the chunk_id id.
Returns(docs, id) == \E k \in 1..Len(docs) : docs[k].chunk_id = id

\* In docs, the candidate with the id a is ranked ahead of the one with the
\* id b: a is returned, and b is not or comes later.
Ahead(docs, a, b) ==
    \E k \in 1..Len(docs) :
        /\ docs[k].chunk_id = a
        /\ \A l \in 1..k : docs[l].chunk_id # b

\* C19: when hybrid_search has returned, the same search with a greater
\* dense_weight and the same sparse_weight ranks no sparse-only candidate
\* ahead of a dense-only candidate that it was not ahead of before.
C19_FusionMonotoneInDenseWeight ==
    hybrid_pc = "returned" =>
        \A w \in Weights :
            w > dense_weight =>
                LET more == HybridSearchResult(searched, query_embedding,
                                               top_k, w, sparse_weight)
                IN  \A a \in DenseOnly, b \in SparseOnly :
                        Ahead(more, searched[b].id, searched[a].id)
                            => Ahead(search_results, searched[b].id, searched[a].id)

\* C20: the two requests of a call are the dense and the sparse one, each
\* with limit top_k x 3; the list returned has at most top_k documents, no
\* id twice, each with the weighted score of a candidate of that id, in
\* descending order of it; and it is the best of both sub-lists: a
\* candidate of either sub-list whose id was left out scores no more than
\* the last document, of a full list.
C20_OverfetchMergeAndTruncate ==
    /\ hybrid_pc \in {"search", "returned", "failed"} =>
          /\ Len(search_request.reqs) = 2
          /\ search_request.reqs[1].anns_field = "dense_vector"
          /\ search_request.reqs[2].anns_field = "sparse_vector"
          /\ \A r \in 1..2 : search_request.reqs[r].limit = top_k * 3
    /\ hybrid_pc = "returned" =>
          LET n == Len(search_results)
              lists == SubLists(searched, search_request, query_embedding)
              found == UNION Range(lists)
              weighted == [i \in found |->
                              Weighted(lists, searched, search_request,
                                       query_embedding, i)]
              score(i) == weighted[i]
          IN  /\ n <= top_k
              /\ \A k, l \in 1..n :
                    k # l => search_results[k].chunk_id # search_results[l].chunk_id
              /\ \A k \in 1..n :
                    \E i \in found :
                        /\ searched[i].id = search_results[k].chunk_id
                        /\ search_results[k].score = score(i)
              /\ \A k \in 1..(n - 1) :
                    search_results[k].score >= search_results[k + 1].score
              /\ \A i \in found :
                    ~Returns(search_results, searched[i].id) =>
                        (n = top_k /\ score(i) <= search_results[n].score)

\* A call with top_k = 1 over a collection in which insert_documents stored
\* a key a second time: the search saw one entity of that key, four
\* entities in all, the sub-lists hold three entities each, and the
\* document returned is an entity that only the dense request found, with
\* an entity that only the sparse request found left out.
C20_Witness ==
    /\ hybrid_pc = "returned"
    /\ top_k = 1
    /\ insert_result = "True"
    /\ Len(collection) > Len(searched)
    /\ Len(searched) = 4
    /\ Len(search_results) = 1
    /\ \E i \in DenseOnly : searched[i].id = search_results[1].chunk_id
    /\ SparseOnly # {}
    /\ Cardinality(Merged(searched, search_request, query_embedding)) > top_k

\* hybrid_search has returned to its caller.
HybridReturned == hybrid_pc \in {"returned", "failed"}

\* The backend failed in the call: the embedding request raised or the
\* search raised.
BackendFailed == embedding_outcome = "api_error" \/ hybrid_pc = "failed"

\* The search found no entity.
NoHits == Merged(searched, search_request, query_embedding) = {}

\* C21: a call of hybrid_search in which the embedding request or the search
\* raised, or in which the search found nothing, returns the empty list.
C21_BackendFailureReturnsEmpty ==
    (HybridReturned /\ (BackendFailed \/ NoHits)) => search_results = <<>>

\* The input candidates that stand at place k of the returned list.
SourcesOf(k) == {i \in 1..Len(documents) : documents[i] = reranked[k]}

\* The score the gather collected for the candidate returned at place k.
ScoreAt(k) == tasks[CHOOSE i \in SourcesOf(k) : TRUE].score

\* C22: the list returned after the gather holds every input candidate
\* once, in the order of non-increasing collected score (no candidate stands
\* before one of greater score); a candidate whose
\* requests both failed is scored 0.0; and a step of one scoring task
\* changes no other task and no score already returned.
C22_RerankReturnsSortedPermutation ==
    /\ [](Reranked =>
            /\ Len(reranked) = Len(documents)
            /\ \A i \in 1..Len(documents) :
                  Cardinality({k \in 1..Len(reranked) : reranked[k] = documents[i]}) = 1
            /\ \A k, l \in 1..Len(reranked) :
                  k < l => ~FloatLess(ScoreAt(k), ScoreAt(l))
            /\ \A i \in 1..Len(tasks) :
                  tasks[i].fallback.kind \in {"raises", "none_content"} =>
                      tasks[i].score = ScoreZero)
    /\ [][rerank_pc = "gather" =>
             \A i \in 1..Len(tasks) :
                 /\ tasks[i].pc = "done" => tasks'[i] = tasks[i]
                 /\ tasks'[i] # tasks[i] =>
                       \A j \in 1..Len(tasks) : j # i => tasks'[j] = tasks[j]]_vars

\* The one list that holds the candidates docs by descending score, and
\* those of equal score in input order: candidate j stands before candidate
\* i when it has the greater score, or the same score and the smaller index.
RerankedFor(docs, scores) ==
    LET n == Len(docs)
        Before(j, i) ==
            FloatLess(scores[i], scores[j]) \/ (scores[j] = scores[i] /\ j < i)
        place(i) == 1 + Cardinality({j \in 1..n : Before(j, i)})
    IN  [k \in 1..n |-> docs[CHOOSE i \in 1..n : place(i) = k]]

\* C23: the list returned after the gather is determined by the candidate
\* list and the scores of the candidates alone: in every interleaving of the
\* scoring tasks, whichever of them returned first, it is the list the sort
\* makes of the candidates in input order, and, when no score is
\* not-a-number, the list by descending score with ties in input order.
C23_OutputIndependentOfCompletionOrder ==
    Reranked =>
        LET scores == [i \in 1..Len(tasks) |-> tasks[i].score]
            sorted == SortedByScore([i \in 1..Len(documents) |->
                                        [score |-> scores[i], doc |-> documents[i]]])
        IN  /\ reranked = [k \in 1..Len(sorted) |-> sorted[k].doc]
            /\ (\A i \in 1..Len(tasks) : scores[i] # NaN) =>
                  reranked = RerankedFor(documents, scores)

\* Three candidates with the same score; the task of the last one returned
\* first, and the list returned is the input list.
C23_Witness ==
    /\ Reranked
    /\ Len(documents) = 3
    /\ first_done = 3
    /\ \A i \in 1..3 : tasks[i].structured = "parsed" /\ tasks[i].score = 8
    /\ reranked = documents

\* The rubric items for which a judge call was issued: the graded ones and
\* the current one once it was called.
ItemsCalled ==
    Len(grading_response_list)
    + (IF pc \in {"call", "await"} /\ judge_calls >= 1 THEN 1 ELSE 0)

\* C24: the first judge calls of the rubric items are issued as one batch:
\* when an item is on a repeated call, after an invalid reply, no other item
\* is still without its first call.
C24_FirstCallsIssuedAsBatch ==
    (pc \in {"call", "await"} /\ judge_calls >= 2) =>
        ItemsCalled = Len(rubric_items)

\* C25: in one rerank call every candidate gets at most one structured
\* request and at most one plain-text request; the plain-text request is sent
\* only after the candidate's structured request has failed (it raised or
\* came back without choices), never after a structured request that returned
\* a score, and no request is sent twice.
C25_OneStructuredOneFallbackNoRetry ==
    \A i \in 1..Len(tasks) :
        /\ tasks[i].structured_calls <= 1
        /\ tasks[i].fallback_calls <= 1
        /\ tasks[i].fallback_calls <= tasks[i].structured_calls
        /\ tasks[i].fallback_calls = 1 =>
               tasks[i].structured \in {"raises", "no_choices"}
        /\ tasks[i].structured = "parsed" => tasks[i].fallback_calls = 0
        /\ TaskDone(i) => tasks[i].structured_calls = 1

\* A rerank call has returned in which one candidate was scored by its
\* structured request alone and another one by the plain-text request that
\* followed its failed structured request.
C25_Witness ==
    /\ Reranked
    /\ \E i, j \in 1..Len(tasks) :
          /\ tasks[i].structured = "parsed"
          /\ tasks[i].structured_calls = 1 /\ tasks[i].fallback_calls = 0
          /\ tasks[j].structured \in {"raises", "no_choices"}
          /\ tasks[j].structured_calls = 1 /\ tasks[j].fallback_calls = 1
          /\ tasks[j].fallback.kind = "text"

\* C26: every malformed judge reply for an item, whatever its shape, leads
\* to another judge call for the same item: the step that handles a reply
\* either records a verdict and goes on with the items, or goes back to the
\* call for that item with nothing recorded; it never ends the evaluation.
C26_MalformedReplyIsRetried ==
    [][pc = "await" =>
          \/ /\ pc' = "grading"
             /\ Len(grading_response_list') = Len(grading_response_list) + 1
          \/ /\ pc' = "call"
             /\ UNCHANGED <<rubric_items, grading_response_list, result>>]_vars

\* The relevance score ask reports for a returned document:
\* "relevance_score": doc.get("score", 0.0).
relevance_score(doc) ==
    IF "score" \in DOMAIN doc THEN doc.score ELSE ScoreZero

\* C27: after a rerank call with a judge, each returned candidate carries
\* the score that call's judge path gave it: the relevance score reported for
\* the candidate at place k is the score collected for it, not the score of
\* the retrieval.
C27_RelevanceScoreIsRerankerScore ==
    Reranked =>
        \A k \in 1..Len(reranked) : relevance_score(reranked[k]) = ScoreAt(k)

\* The items that carry tag.
Carrying(tag) == {i \in 1..Len(rubric_items) : tag \in Range(rubric_items[i].tags)}

\* The rubric tags that have a positive item among the items carrying them.
ScoredRubricTags ==
    {tag \in RubricTags(rubric_items) : Carrying(tag) \cap Positive(rubric_items) # {}}

\* C28: the metrics of a successful evaluation have exactly the keys
\* overall_score, the example tags and the rubric tags with a positive item;
\* a key that is an example tag and such a rubric tag holds the ratio of the
\* tag, and an example tag that is no such rubric tag holds overall_score.
C28_MetricsKeysAndCollisions ==
    Scored =>
        /\ DOMAIN result.metrics
              = {"overall_score"} \cup Range(example_tags) \cup ScoredRubricTags
        /\ result.metrics["overall_score"] = result.overall_score
        /\ \A tag \in Range(example_tags) :
              IF tag \in ScoredRubricTags
              THEN IsRatio(result.metrics[tag],
                           PointsOver(rubric_items,
                                      Carrying(tag) \cap Met(grading_response_list)),
                           PointsOver(rubric_items,
                                      Carrying(tag) \cap Positive(rubric_items)))
              ELSE result.metrics[tag] = result.overall_score

\* C28 witness: a scored result in which one example tag is a rubric tag
\* whose ratio differs from the overall score, and another example tag is
\* no rubric tag.
C28_Witness ==
    /\ Scored
    /\ \E tag \in Range(example_tags) \cap ScoredRubricTags :
          result.metrics[tag] # result.overall_score
    /\ \E tag \in Range(example_tags) \ RubricTags(rubric_items) :
          result.metrics[tag] = result.overall_score

\* The example tags hold a tag twice (the context is one of the tags the
\* category selection appends), or an item of the rubric lists a tag twice.
DuplicateTags ==
    \/ Cardinality(Range(example_tags)) # Len(example_tags)
    \/ \E i \in 1..Len(rubric_items) :
          Cardinality(Range(rubric_items[i].tags)) # Len(rubric_items[i].tags)

\* C29: an evaluation whose example tags or item tags hold a duplicate ends
\* as a failed result (overall_score 0.0, no metrics, no graded items, the
\* error recorded), and only after every rubric item was graded; with
\* distinct example tags and duplicate-free item tags an evaluation whose
\* items are all graded and whose score is defined is not failed.
C29_DuplicateTagsFailAfterGrading ==
    (Returned /\ model_client) =>
        /\ DuplicateTags =>
              /\ Failed
              /\ ErrorRecorded
              /\ result.overall_score = ZeroScore
              /\ AllGraded
        /\ ( /\ ~DuplicateTags
             /\ AllGraded
             /\ ~IsNone(calculate_vetbench_score(rubric_items, grading_response_list)) )
              => Scored

\* The score s is at most 1, and is 1 exactly when full holds.
AtMostOneAndOneIff(s, full) ==
    /\ s.num <= s.den
    /\ (s.num = s.den) <=> full

\* Among the items of the set, every positive one is met and no negative
\* one is.
FullMarks(among) ==
    /\ (among \cap Positive(rubric_items)) \subseteq Met(grading_response_list)
    /\ among \cap Negative(rubric_items) \cap Met(grading_response_list) = {}

\* C30: a defined value of calculate_vetbench_score, over the whole rubric
\* or over the items of one tag, is at most 1, and it is 1 exactly when
\* every positive item is met and no negative item is met.
C30_ScoreAtMostOneAndOneIffFullMarks ==
    Graded =>
        /\ LET s == calculate_vetbench_score(rubric_items, grading_response_list)
           IN  ~IsNone(s) => AtMostOneAndOneIff(s, FullMarks(1..Len(rubric_items)))
        /\ \A tag \in RubricTags(rubric_items) :
              LET idx == IndicesWithTag(rubric_items, tag)
                  s == calculate_vetbench_score(Pick(rubric_items, idx),
                                                Pick(grading_response_list, idx))
              IN  ~IsNone(s) => AtMostOneAndOneIff(s, FullMarks(Carrying(tag)))

\* C30 witness: a scored result in which every positive item is met and a
\* negative item is met too: the overall score is below 1 while the tag of
\* a positive item scores 1.
C30_Witness ==
    /\ Scored
    /\ Positive(rubric_items) \subseteq Met(grading_response_list)
    /\ Negative(rubric_items) \cap Met(grading_response_list) # {}
    /\ result.overall_score.num < result.overall_score.den
    /\ \E tag \in ScoredRubricTags : result.metrics[tag] = [num |-> 1, den |-> 1]

====
